---- MODULE Spec2Model ----
(***************************************************************************)
(* Model of the fetch orchestration, cache merge and aggregation engine   *)
(* of github-stats (src/api/aggregatedStats.js, src/api/github.js,        *)
(* src/api/dateFilterHelpers.js and the searches of src/Dashboard.jsx).   *)
(* Nine specifications share the variables.  A behaviour of Spec is one   *)
(* call of handleMultiSearch on a session that may already hold cached    *)
(* developers: the split of the list by the cache, the run of             *)
(* fetchMultipleUsersData over the usernames left to fetch (the           *)
(* rate-status query and the three barrier-separated fan-outs of profile, *)
(* repository and events fetches, each fetch settling in any order), and  *)
(* the publication of the result; Settling is Spec when every request     *)
(* sent settles and every settled await resumes.  A behaviour of Session  *)
(* is a sequence of user actions on the Dashboard (submit, switch, chip   *)
(* delete, Compare) with the fetch runs they start in flight together,    *)
(* each handler reading the state of the render it was issued from;       *)
(* Overlap is the same session with a third username.  A behaviour of     *)
(* Merge applies buildCombinedUserData and the aggregation once to a      *)
(* cached subset and a fetched userData drawn from bounded sets.  A       *)
(* behaviour of Calls calls calculateAggregatedStats twice on one         *)
(* userData while the day may change.  A behaviour of Filter applies the  *)
(* two date filters once to a range, a time zone and data drawn from      *)
(* bounded sets.  A behaviour of Palette calls generateColors twice.  A   *)
(* behaviour of Form is a sequence of actions on the UsernameInput        *)
(* component: texts submitted, the mode switched, names removed, Compare  *)
(* clicked.                                                               *)
(*                                                                        *)
(* JavaScript objects whose key order is observable (userData,            *)
(* languageDistribution) are modelled as [keys, val]: keys is the         *)
(* sequence of own string keys in insertion order (what Object.keys       *)
(* returns for keys that are not array indices), val maps each key to its *)
(* value.  Optional fields of a record are modelled by the record's       *)
(* DOMAIN.                                                                *)
(***************************************************************************)
EXTENDS Integers, Sequences, FiniteSets, TLC

\* ------------------------------------------------------------------ bounds
\* Largest batch handed to fetchMultipleUsersData.
MaxUsers == 2

\* Largest `remaining` value the rate-status query reports.
MaxRemaining == 6

\* ------------------------------------------------------- program constants
\* Estimated API calls per user (user, repos, events).
CallsPerUser == 3

\* The key under which fetchMultipleUsersData stores its warning in userData.
WarningKey == "rateLimitWarning"

\* ------------------------------------------------------------ JS values
Null == "<null>"
Undefined == "<undefined>"

\* The usernames of the model.  "rateLimitWarning" is a well-formed GitHub
\* login that coincides with the key the orchestrator reserves in userData.
Ids == {"a", "b", "rateLimitWarning"}

\* error.message of a rejected fetch, as produced by handleApiError: a profile
\* request fails with 404 or on the rate limit, a request for the repositories
\* or events of a username whose profile was just served fails on the rate limit.
NotFoundMessage == "GitHub user not found. Please check the username."
RateLimitedMessage == "GitHub API rate limit exceeded."
ErrorMessages == {NotFoundMessage, RateLimitedMessage}

FetchErrors(kind) ==
    IF kind = "profile" THEN ErrorMessages ELSE {RateLimitedMessage}

Kinds == {"profile", "repositories", "events"}

\* ------------------------------------------------------------ sequences
Range(s) == {s[i] : i \in DOMAIN s}

RECURSIVE SumSeq(_)
SumSeq(s) == IF s = <<>> THEN 0 ELSE Head(s) + SumSeq(Tail(s))

\* Duplicate-free sequences over S of length 0..n.
IsDistinct(s) == \A i, j \in DOMAIN s : i # j => s[i] # s[j]

RECURSIVE DistinctSeqs(_, _)
DistinctSeqs(S, n) ==
    IF n = 0 THEN {<<>>}
    ELSE LET shorter == DistinctSeqs(S, n - 1)
             longer  == {Append(s, x) : s \in shorter, x \in S}
         IN  shorter \cup {s \in longer : IsDistinct(s)}

\* Ascending sequence of a finite set of integers (Array.prototype.sort on
\* ISO calendar dates, which order like the day numbers they denote).
RECURSIVE SortSet(_)
SortSet(S) ==
    IF S = {} THEN <<>>
    ELSE LET m == CHOOSE x \in S : \A y \in S : x <= y
         IN  <<m>> \o SortSet(S \ {m})

\* ------------------------------------------------------------ JS objects
EmptyObject == [keys |-> <<>>, val |-> [k \in {} |-> Null]]

HasKey(obj, k) == k \in DOMAIN obj.val

\* obj[k] = v : an existing key keeps its position, a new key is appended.
Put(obj, k, v) ==
    [keys |-> IF HasKey(obj, k) THEN obj.keys ELSE Append(obj.keys, k),
     val  |-> [x \in (DOMAIN obj.val) \cup {k} |-> IF x = k THEN v ELSE obj.val[x]]]

\* Object.keys(obj)
ObjectKeys(obj) == obj.keys

\* rec.field = v on a record whose fields are its DOMAIN.
SetField(rec, f, v) ==
    [x \in (DOMAIN rec) \cup {f} |-> IF x = f THEN v ELSE rec[x]]

Has(rec, f) == f \in DOMAIN rec

\* ------------------------------------------------------- aggregation
\* `today` as new Date().toISOString().split('T')[0] reports it, as a day number.
Today == 9

\* new Date(created_at).toISOString().split('T')[0]: the UTC calendar day of a
\* timestamp.  Timestamps are hours since the epoch, days are day numbers.
ToISODate(created_at) == created_at \div 24

\* A record is skipped by the aggregation when it carries an error or no profile.
HasError(rec) == Has(rec, "error") /\ rec.error # ""

SkippedUser(userData, username) ==
    \/ ~HasKey(userData, username)
    \/ HasError(userData.val[username])
    \/ ~Has(userData.val[username], "user")

\* processCommitData skips a record with an error or without an events field.
SkippedEvents(userData, username) ==
    \/ ~HasKey(userData, username)
    \/ HasError(userData.val[username])
    \/ ~Has(userData.val[username], "events")

PushEvents(events) == SelectSeq(events, LAMBDA e : e.type = "PushEvent")

\* The dates of all events, of whatever type.
EventDates(events) == {ToISODate(e.created_at) : e \in Range(events)}

PushDates(events) == {ToISODate(e.created_at) : e \in Range(PushEvents(events))}

\* Lines 179-184: commitsByDate[date] += event.payload.size || 0 for every
\* push event, starting from commitsByDate, which holds 0 for every label.
RECURSIVE CountCommits(_, _)
CountCommits(commitsByDate, events) ==
    IF events = <<>> THEN commitsByDate
    ELSE LET e    == Head(events)
             date == ToISODate(e.created_at)
             next == IF e.type = "PushEvent"
                     THEN [commitsByDate EXCEPT ![date] = @ + e.payload.size]
                     ELSE commitsByDate
         IN  CountCommits(next, Tail(events))

\* A commit series without rows for the skipped usernames.
processCommitDataOfUsable(userData, usernames) ==
    LET usable  == SelectSeq(usernames, LAMBDA u : ~SkippedEvents(userData, u))
        found   == UNION {PushDates(userData.val[usable[i]].events) : i \in DOMAIN usable}
        allDates == IF found = {} THEN {Today} ELSE found
        labels  == SortSet(allDates)
        Row(username) ==
            LET commitsByDate ==
                    CountCommits([d \in allDates |-> 0], userData.val[username].events)
            IN  [label |-> username,
                 data  |-> [i \in DOMAIN labels |-> commitsByDate[labels[i]]]]
    IN  [labels |-> labels,
         datasets |-> [i \in DOMAIN usable |-> Row(usable[i])]]

\* A commit series whose labels stay empty when no push is found.
processCommitDataOfFound(userData, usernames) ==
    LET allDates == UNION {PushDates(userData.val[usernames[i]].events) :
                             i \in {j \in DOMAIN usernames :
                                      ~SkippedEvents(userData, usernames[j])}}
        labels  == SortSet(allDates)
        Row(username) ==
            IF SkippedEvents(userData, username)
            THEN [label |-> username, data |-> [i \in DOMAIN labels |-> 0]]
            ELSE LET commitsByDate ==
                         CountCommits([d \in allDates |-> 0],
                                      userData.val[username].events)
                 IN  [label |-> username,
                      data  |-> [i \in DOMAIN labels |-> commitsByDate[labels[i]]]]
    IN  [labels |-> labels,
         datasets |-> [i \in DOMAIN usernames |-> Row(usernames[i])]]

\* A commit series that always has the date of the call among its labels.
processCommitDataWithToday(userData, usernames, today) ==
    LET found   == UNION {PushDates(userData.val[usernames[i]].events) :
                            i \in {j \in DOMAIN usernames :
                                     ~SkippedEvents(userData, usernames[j])}}
        allDates == found \cup {today}
        labels  == SortSet(allDates)
        Row(username) ==
            IF SkippedEvents(userData, username)
            THEN [label |-> username, data |-> [i \in DOMAIN labels |-> 0]]
            ELSE LET commitsByDate ==
                         CountCommits([d \in allDates |-> 0],
                                      userData.val[username].events)
                 IN  [label |-> username,
                      data  |-> [i \in DOMAIN labels |-> commitsByDate[labels[i]]]]
    IN  [labels |-> labels,
         datasets |-> [i \in DOMAIN usernames |-> Row(usernames[i])]]

\* Lines 130-194, called on the day `today`: new Date() of line 154 is read
\* from the clock.
processCommitDataAt(userData, usernames, today) ==
    LET found   == UNION {PushDates(userData.val[usernames[i]].events) :
                            i \in {j \in DOMAIN usernames :
                                     ~SkippedEvents(userData, usernames[j])}}
        allDates == IF found = {} THEN {today} ELSE found
        labels  == SortSet(allDates)
        Row(username) ==
            IF SkippedEvents(userData, username)
            THEN [label |-> username, data |-> [i \in DOMAIN labels |-> 0]]
            ELSE LET commitsByDate ==
                         CountCommits([d \in allDates |-> 0],
                                      userData.val[username].events)
                 IN  [label |-> username,
                      data  |-> [i \in DOMAIN labels |-> commitsByDate[labels[i]]]]
    IN  [labels |-> labels,
         datasets |-> [i \in DOMAIN usernames |-> Row(usernames[i])]]

\* The call made on the day Today.
processCommitData(userData, usernames) == processCommitDataAt(userData, usernames, Today)

\* Array.prototype.sort with (a, b) => b.count - a.count: stable, descending.
RECURSIVE InsertByCount(_, _)
InsertByCount(sorted, x) ==
    IF sorted = <<>> THEN <<x>>
    ELSE IF Head(sorted).count >= x.count
         THEN <<Head(sorted)>> \o InsertByCount(Tail(sorted), x)
         ELSE <<x>> \o sorted

RECURSIVE SortByCountDesc(_)
SortByCountDesc(s) ==
    IF s = <<>> THEN <<>>
    ELSE InsertByCount(SortByCountDesc(SubSeq(s, 1, Len(s) - 1)), s[Len(s)])

processLanguageData(languageDistribution) ==
    LET keys      == ObjectKeys(languageDistribution)
        languages == SortByCountDesc([i \in DOMAIN keys |->
                         [name |-> keys[i], count |-> languageDistribution.val[keys[i]]]])
    IN  [labels |-> [i \in DOMAIN languages |-> languages[i].name],
         data   |-> [i \in DOMAIN languages |-> languages[i].count]]

\* Repositories with a stand-in where the record has none.
RepositoriesOrOne(rec) ==
    IF Has(rec, "repositories") THEN rec.repositories
    ELSE <<[name |-> "r0", language |-> "Go", stargazers_count |-> 1, forks_count |-> 1]>>

RepositoriesOf(rec) == IF Has(rec, "repositories") THEN rec.repositories ELSE <<>>

UserStars(rec) ==
    LET repos == RepositoriesOf(rec)
    IN  SumSeq([i \in DOMAIN repos |-> repos[i].stargazers_count])

UserForks(rec) ==
    LET repos == RepositoriesOf(rec)
    IN  SumSeq([i \in DOMAIN repos |-> repos[i].forks_count])

\* A language count weighted by the stars of the repository.
RECURSIVE CountLanguagesByStars(_, _)
CountLanguagesByStars(dist, repos) ==
    IF repos = <<>> THEN dist
    ELSE LET lang == Head(repos).language
             next == IF lang = Null THEN dist
                     ELSE Put(dist, lang,
                              (IF HasKey(dist, lang) THEN dist.val[lang] ELSE 0)
                              + Head(repos).stargazers_count)
         IN  CountLanguagesByStars(next, Tail(repos))

\* languageDistribution[repo.language] = (languageDistribution[repo.language] || 0) + 1
RECURSIVE CountLanguages(_, _)
CountLanguages(dist, repos) ==
    IF repos = <<>> THEN dist
    ELSE LET lang == Head(repos).language
             next == IF lang = Null THEN dist
                     ELSE Put(dist, lang,
                              (IF HasKey(dist, lang) THEN dist.val[lang] ELSE 0) + 1)
         IN  CountLanguages(next, Tail(repos))

\* Object.keys(userData).filter(key => key !== 'rateLimitWarning')
AggregatedUsernames(userData) ==
    SelectSeq(ObjectKeys(userData), LAMBDA key : key # WarningKey)

\* An iteration that counts one repository for a skipped username.
AggregateUserCounted(acc, userData, username) ==
    IF SkippedUser(userData, username)
    THEN [acc EXCEPT
            !.totalRepositories = @ + 1,
            !.userComparisons.repositories = Append(@, [username |-> username, value |-> 0]),
            !.userComparisons.followers    = Append(@, [username |-> username, value |-> 0]),
            !.userComparisons.stars        = Append(@, [username |-> username, value |-> 0]),
            !.userComparisons.forks        = Append(@, [username |-> username, value |-> 0])]
    ELSE LET rec       == userData.val[username]
             user      == rec.user
             userStars == UserStars(rec)
             userForks == UserForks(rec)
         IN  [acc EXCEPT
                !.totalRepositories = @ + user.public_repos,
                !.totalFollowers    = @ + user.followers,
                !.totalStars        = @ + userStars,
                !.totalForks        = @ + userForks,
                !.languageDistribution = CountLanguages(@, RepositoriesOf(rec)),
                !.userComparisons.repositories =
                    Append(@, [username |-> username, value |-> user.public_repos]),
                !.userComparisons.followers =
                    Append(@, [username |-> username, value |-> user.followers]),
                !.userComparisons.stars =
                    Append(@, [username |-> username, value |-> userStars]),
                !.userComparisons.forks =
                    Append(@, [username |-> username, value |-> userForks])]

\* An iteration that leaves a skipped username out of the comparison arrays
\* and compares the forks of the others by their stars.
AggregateUserUncompared(acc, userData, username) ==
    IF SkippedUser(userData, username)
    THEN acc
    ELSE LET rec       == userData.val[username]
             user      == rec.user
             userStars == UserStars(rec)
             userForks == UserForks(rec)
         IN  [acc EXCEPT
                !.totalRepositories = @ + user.public_repos,
                !.totalFollowers    = @ + user.followers,
                !.totalStars        = @ + userStars,
                !.totalForks        = @ + userForks,
                !.languageDistribution = CountLanguages(@, RepositoriesOf(rec)),
                !.userComparisons.repositories =
                    Append(@, [username |-> username, value |-> user.public_repos]),
                !.userComparisons.followers =
                    Append(@, [username |-> username, value |-> user.followers]),
                !.userComparisons.stars =
                    Append(@, [username |-> username, value |-> userStars]),
                !.userComparisons.forks =
                    Append(@, [username |-> username, value |-> userStars])]

\* One iteration of the usernames.forEach of lines 240-313 on the running
\* totals, the language distribution and the four comparison arrays.
AggregateUser(acc, userData, username) ==
    IF SkippedUser(userData, username)
    THEN [acc EXCEPT
            !.userComparisons.repositories = Append(@, [username |-> username, value |-> 0]),
            !.userComparisons.followers    = Append(@, [username |-> username, value |-> 0]),
            !.userComparisons.stars        = Append(@, [username |-> username, value |-> 0]),
            !.userComparisons.forks        = Append(@, [username |-> username, value |-> 0])]
    ELSE LET rec       == userData.val[username]
             user      == rec.user
             userStars == UserStars(rec)
             userForks == UserForks(rec)
         IN  [acc EXCEPT
                !.totalRepositories = @ + user.public_repos,
                !.totalFollowers    = @ + user.followers,
                !.totalStars        = @ + userStars,
                !.totalForks        = @ + userForks,
                !.languageDistribution = CountLanguages(@, RepositoriesOf(rec)),
                !.userComparisons.repositories =
                    Append(@, [username |-> username, value |-> user.public_repos]),
                !.userComparisons.followers =
                    Append(@, [username |-> username, value |-> user.followers]),
                !.userComparisons.stars =
                    Append(@, [username |-> username, value |-> userStars]),
                !.userComparisons.forks =
                    Append(@, [username |-> username, value |-> userForks])]

RECURSIVE AggregateUsers(_, _, _)
AggregateUsers(acc, userData, usernames) ==
    IF usernames = <<>> THEN acc
    ELSE AggregateUsers(AggregateUser(acc, userData, Head(usernames)),
                        userData, Tail(usernames))

calculateAggregatedStats(userData) ==
    LET usernames == AggregatedUsernames(userData)
        hasRateLimitWarning == HasKey(userData, WarningKey)
        acc == AggregateUsers(
                   [totalRepositories |-> 0, totalStars |-> 0, totalForks |-> 0,
                    totalFollowers |-> 0, languageDistribution |-> EmptyObject,
                    userComparisons |-> [repositories |-> <<>>, followers |-> <<>>,
                                         stars |-> <<>>, forks |-> <<>>]],
                   userData, usernames)
    IN  [totalUsers        |-> Len(usernames),
         totalRepositories |-> acc.totalRepositories,
         totalStars        |-> acc.totalStars,
         totalForks        |-> acc.totalForks,
         totalFollowers    |-> acc.totalFollowers,
         languageDistribution |-> acc.languageDistribution,
         userComparisons   |-> acc.userComparisons,
         commitData        |-> processCommitData(userData, usernames),
         languageData      |-> processLanguageData(acc.languageDistribution),
         hasRateLimitWarning |-> hasRateLimitWarning,
         rateLimitWarning  |-> IF hasRateLimitWarning
                               THEN (IF Has(userData.val[WarningKey], "message")
                                     THEN userData.val[WarningKey].message
                                     ELSE Undefined)
                               ELSE Null]

\* Lines 223-332, called on the day `today`.
calculateAggregatedStatsAt(userData, today) ==
    [calculateAggregatedStats(userData) EXCEPT
        !.commitData = processCommitDataAt(userData, AggregatedUsernames(userData), today)]

\* ------------------------------------------------- the remote API
\* What the GitHub API serves for each username when a request succeeds.
RemoteUser(username) ==
    CASE username = "a" -> [login |-> "a", public_repos |-> 2, followers |-> 5]
      [] username = "b" -> [login |-> "b", public_repos |-> 1, followers |-> 3]
      [] OTHER          -> [login |-> username, public_repos |-> 4, followers |-> 1]

RemoteRepositories(username) ==
    CASE username = "a" ->
            <<[name |-> "a1", language |-> "Go", stargazers_count |-> 10, forks_count |-> 2],
              [name |-> "a2", language |-> Null, stargazers_count |-> 1, forks_count |-> 0]>>
      [] username = "b" ->
            <<[name |-> "b1", language |-> "Go", stargazers_count |-> 3, forks_count |-> 1],
              [name |-> "b2", language |-> "Rust", stargazers_count |-> 0, forks_count |-> 0],
              [name |-> "b3", language |-> "Rust", stargazers_count |-> 2, forks_count |-> 5]>>
      [] OTHER ->
            <<[name |-> "r1", language |-> "C", stargazers_count |-> 7, forks_count |-> 4]>>

RemoteEvents(username) ==
    CASE username = "a" ->
            <<[type |-> "PushEvent", created_at |-> 50, payload |-> [size |-> 3]],
              [type |-> "WatchEvent", created_at |-> 80, payload |-> [size |-> 0]],
              [type |-> "PushEvent", created_at |-> 49, payload |-> [size |-> 4]],
              [type |-> "PushEvent", created_at |-> 25, payload |-> [size |-> 1]]>>
      [] username = "b" ->
            <<[type |-> "WatchEvent", created_at |-> 30, payload |-> [size |-> 0]]>>
      [] OTHER ->
            <<[type |-> "PushEvent", created_at |-> 100, payload |-> [size |-> 2]]>>

\* What getRateLimitStatus can settle with: resources.core of /rate_limit, or
\* a rejection.
RateResponses ==
    {[fulfilled |-> TRUE, remaining |-> r, limit |-> MaxRemaining, reset |-> "10:00:00"] :
        r \in 0..MaxRemaining}
    \cup {[fulfilled |-> FALSE]}

\* -------------------------------------------------------- checkRateLimit
\* checkRateLimit with the boundary on the wrong side: remaining <= estimatedCalls.
checkRateLimitInclusive(userCount, response) ==
    IF response.fulfilled
    THEN LET estimatedCalls == userCount * CallsPerUser
         IN  IF response.remaining <= estimatedCalls
             THEN [sufficient |-> FALSE, remaining |-> response.remaining,
                   resetTime |-> response.reset]
             ELSE [sufficient |-> TRUE, remaining |-> response.remaining,
                   limit |-> response.limit]
    ELSE [sufficient |-> TRUE]

\* The value checkRateLimit(userCount) resolves to when getRateLimitStatus
\* settles with `response`.
checkRateLimit(userCount, response) ==
    IF response.fulfilled
    THEN LET estimatedCalls == userCount * CallsPerUser
         IN  IF response.remaining < estimatedCalls
             THEN [sufficient |-> FALSE, remaining |-> response.remaining,
                   resetTime |-> response.reset]
             ELSE [sufficient |-> TRUE, remaining |-> response.remaining,
                   limit |-> response.limit]
    ELSE [sufficient |-> TRUE]

WarningMessage(resetTime) ==
    "GitHub API rate limit may be exceeded. Limit resets at " \o resetTime

\* Lines 45-53: the fresh userData, with the warning when the budget is short.
InitialUserData(rateLimitStatus) ==
    IF ~rateLimitStatus.sufficient
    THEN Put(EmptyObject, WarningKey,
             [message |-> WarningMessage(rateLimitStatus.resetTime)])
    ELSE EmptyObject

\* ------------------------------------------- fetchMultipleUsersData
\* Line 59 and line 64: what a settled profile fetch leaves in userData.
ProfileSuccess(userData, username, user) ==
    Put(userData, username, [user |-> user])

\* A catch block that logs the rejection and records nothing.
ProfileFailureSwallowed(userData, username, message) == userData

\* A catch block that keeps a placeholder for the profile beside the error.
ProfileFailureWithUser(userData, username, message) ==
    Put(userData, username, [error |-> message, user |-> Null])

ProfileFailure(userData, username, message) ==
    Put(userData, username, [error |-> message])

\* The guard without its error test: userData[username]
EligibleIgnoringError(userData, username) == HasKey(userData, username)

\* The guard of a run that gives up the later phases once the warning is set.
EligibleWithoutWarning(userData, username) ==
    /\ HasKey(userData, username)
    /\ ~HasError(userData.val[username])
    /\ ~HasKey(userData, WarningKey)

\* Lines 73 and 88: userData[username] && !userData[username].error
Eligible(userData, username) ==
    HasKey(userData, username) /\ ~HasError(userData.val[username])

\* A catch block that stores the message under `error`, as the profile phase does.
SetUserFieldAsError(userData, username, field, value) ==
    Put(userData, username,
        SetField(userData.val[username],
                 IF field \in {"repositoriesError", "eventsError"} THEN "error" ELSE field,
                 value))

\* Lines 76/79 and 91/94: a field set on the existing record.
SetUserField(userData, username, field, value) ==
    Put(userData, username, SetField(userData.val[username], field, value))

\* A barrier that lets the phase go on as soon as one promise has settled.
AnySettled(statuses) == \E u \in DOMAIN statuses : statuses[u] # "pending"

\* A barrier that lets only fulfilled fetches through.
AllFulfilled(statuses) == \A u \in DOMAIN statuses : statuses[u] \in {"ok", "none"}

\* await Promise.all(promises): every promise of the phase has settled (the
\* mappers catch every rejection, so none of them rejects).
AllSettled(statuses) == \A u \in DOMAIN statuses : statuses[u] # "pending"

\* Lines 101-113: the value fetchMultipleUsersData resolves to.
FinalResult(userData, hasAnyValidUser) ==
    IF ~hasAnyValidUser /\ HasKey(userData, WarningKey)
    THEN [userData |-> userData,
          rateLimitExceeded |-> TRUE,
          rateLimitMessage |-> IF Has(userData.val[WarningKey], "message")
                               THEN userData.val[WarningKey].message
                               ELSE Undefined]
    ELSE [userData |-> userData,
          aggregatedData |-> calculateAggregatedStats(userData)]

\* ------------------------------------------------------ api/github.js
\* processCommitHistory(events): per-date sums of the push sizes, dates ascending.
RECURSIVE GroupCommits(_, _)
GroupCommits(commitsByDate, events) ==
    IF events = <<>> THEN commitsByDate
    ELSE LET e    == Head(events)
             date == ToISODate(e.created_at)
             next == IF date \in DOMAIN commitsByDate
                     THEN [commitsByDate EXCEPT ![date] = @ + e.payload.size]
                     ELSE [d \in (DOMAIN commitsByDate) \cup {date} |->
                             IF d = date THEN e.payload.size ELSE commitsByDate[d]]
         IN  GroupCommits(next, Tail(events))

\* The same over the events of every type.
processCommitHistoryOfAll(events) ==
    LET commitsByDate == GroupCommits([d \in {} |-> 0], events)
        dates         == SortSet(DOMAIN commitsByDate)
    IN  [labels |-> dates,
         data   |-> [i \in DOMAIN dates |-> commitsByDate[dates[i]]]]

processCommitHistory(events) ==
    LET commitsByDate == GroupCommits([d \in {} |-> 0], PushEvents(events))
        dates         == SortSet(DOMAIN commitsByDate)
    IN  [labels |-> dates,
         data   |-> [i \in DOMAIN dates |-> commitsByDate[dates[i]]]]

\* calculateRepositoryStats(repositories), without the two derived top-5 lists.
calculateRepositoryStats(repositories) ==
    [totalRepos |-> Len(repositories),
     totalStars |-> SumSeq([i \in DOMAIN repositories |-> repositories[i].stargazers_count]),
     totalForks |-> SumSeq([i \in DOMAIN repositories |-> repositories[i].forks_count]),
     languageDistribution |-> CountLanguages(EmptyObject, repositories)]

\* ------------------------------------------------------- Dashboard.jsx
\* JavaScript null where a record may stand.
NoData == [null |-> TRUE]

\* Lines 266-274: the cache entry made from a fetched record (the timestamp,
\* which nothing reads, is left out).
CacheEntry(rec) ==
    [user |-> rec.user,
     repositories |-> RepositoriesOf(rec),
     repoStats |-> calculateRepositoryStats(RepositoriesOf(rec)),
     commitHistory |-> processCommitHistory(IF Has(rec, "events") THEN rec.events ELSE <<>>)]

\* Lines 302-319.
RECURSIVE AddCachedUsers(_, _, _)
AddCachedUsers(userData, cachedUsers, keys) ==
    IF keys = <<>> THEN userData
    ELSE LET entry == cachedUsers.val[Head(keys)]
         IN  AddCachedUsers(
                 Put(userData, Head(keys),
                     [user |-> entry.user, repositories |-> entry.repositories,
                      events |-> <<>>]),
                 cachedUsers, Tail(keys))

buildCombinedUserData(cachedUsers, fetchedUserData) ==
    LET userData == AddCachedUsers(fetchedUserData, cachedUsers, ObjectKeys(cachedUsers))
    IN  [userData |-> userData, aggregatedData |-> calculateAggregatedStats(userData)]

\* Lines 186-196: the split of the caller's list by the cache.
RECURSIVE CachedUsersOf(_, _)
CachedUsersOf(developerCache, usernameList) ==
    IF usernameList = <<>> THEN EmptyObject
    ELSE LET last == usernameList[Len(usernameList)]
             rest == CachedUsersOf(developerCache, SubSeq(usernameList, 1, Len(usernameList) - 1))
         IN  IF last \in DOMAIN developerCache
             THEN Put(rest, last, developerCache[last])
             ELSE rest

\* A split that hands the whole list to the fetch, cached or not.
UsersToFetchAll(developerCache, usernameList) == usernameList

UsersToFetch(developerCache, usernameList) ==
    SelectSeq(usernameList, LAMBDA u : u \notin DOMAIN developerCache)

\* A success branch that makes an entry for every key of the fetched userData,
\* with or without a profile.
RECURSIVE CacheFetchedAll(_, _, _)
CacheFetchedAll(newCache, fetchedUserData, keys) ==
    IF keys = <<>> THEN newCache
    ELSE LET username == Head(keys)
             rec      == fetchedUserData.val[username]
             entry    == IF Has(rec, "user")
                         THEN CacheEntry(rec)
                         ELSE [user |-> NoData, repositories |-> <<>>,
                               repoStats |-> calculateRepositoryStats(<<>>),
                               commitHistory |-> processCommitHistory(<<>>)]
         IN  CacheFetchedAll(
                 [u \in (DOMAIN newCache) \cup {username} |->
                     IF u = username THEN entry ELSE newCache[u]],
                 fetchedUserData, Tail(keys))

\* Lines 254-279: the cache after a successful batch, built on the cache the
\* call saw when it started.
RECURSIVE CacheFetched(_, _, _)
CacheFetched(newCache, fetchedUserData, keys) ==
    IF keys = <<>> THEN newCache
    ELSE LET username == Head(keys)
             rec      == fetchedUserData.val[username]
             next     == IF Has(rec, "user")
                         THEN [u \in (DOMAIN newCache) \cup {username} |->
                                 IF u = username THEN CacheEntry(rec) ELSE newCache[u]]
                         ELSE newCache
         IN  CacheFetched(next, fetchedUserData, Tail(keys))

\* A rate-limit branch that publishes fetchedData as it came.
RateLimitedDataAsFetched(cachedUsers, fetchedData) == fetchedData

\* Lines 245-249: what the rate-limit branch publishes.
RateLimitedData(cachedUsers, fetchedData) ==
    buildCombinedUserData(cachedUsers, fetchedData.userData)

\* Lines 216-296: what handleMultiSearch publishes once fetchedData is there.
HandleFetched(fetchedData, cachedUsers, cache, dashboard) ==
    IF Has(fetchedData, "error")
    THEN [dashboard EXCEPT
            !.error = fetchedData.message,
            !.multiUserData = IF Len(ObjectKeys(cachedUsers)) > 0
                              THEN buildCombinedUserData(cachedUsers, EmptyObject)
                              ELSE NoData]
    ELSE IF Has(fetchedData, "rateLimitExceeded")
    THEN [dashboard EXCEPT
            !.error = fetchedData.rateLimitMessage,
            !.rateLimitWarning = TRUE,
            !.multiUserData = RateLimitedData(cachedUsers, fetchedData)]
    ELSE [dashboard EXCEPT
            !.developerCache = CacheFetched(cache, fetchedData.userData,
                                            AggregatedUsernames(fetchedData.userData)),
            !.multiUserData = IF Len(ObjectKeys(cachedUsers)) > 0
                              THEN buildCombinedUserData(cachedUsers, fetchedData.userData)
                              ELSE fetchedData]

\* The record the three successful fetches of a username give.
FullRecord(username) ==
    [user |-> RemoteUser(username), repositories |-> RemoteRepositories(username),
     events |-> RemoteEvents(username)]

\* The caches a session can have built before a search: any set of usernames
\* fetched earlier with success.
InitialCaches ==
    {[u \in S |-> CacheEntry(FullRecord(u))] : S \in SUBSET Ids}

\* The batches a caller passes: non-empty and duplicate-free, as handleSubmit
\* and handleMultiSearch build them.
Batches == DistinctSeqs(Ids, MaxUsers) \ {<<>>}

NoResult == [pending |-> TRUE]
NoStatus == [pending |-> TRUE]
NoFetches == [k \in Kinds |-> [u \in {} |-> "none"]]
NoneIssued == [k \in Kinds |-> [u \in {} |-> 0]]

\* ------------------------------------------- the session of the Dashboard
\* Most fetch runs a session is followed through.
MaxRuns == 2

\* The usernames searched for in a session.
SessionIds == {"a", "b"}

\* The caches a session over `ids` can hold when it is at rest.
CachesAtRest(ids) ==
    {[u \in S |-> CacheEntry(FullRecord(u))] : S \in SUBSET ids}

\* Lines 56-59: the individual view before a profile is shown.
NoProfile ==
    [userData |-> NoData, repositories |-> <<>>, repoStats |-> NoData,
     commitHistory |-> [labels |-> <<>>, data |-> <<>>]]

\* Lines 104-107 and 137-140: the individual view of a cache entry.
ProfileOf(entry) ==
    [userData |-> entry.user, repositories |-> entry.repositories,
     repoStats |-> entry.repoStats, commitHistory |-> entry.commitHistory]

\* s without its i-th element.
RemoveAt(s, i) == SubSeq(s, 1, i - 1) \o SubSeq(s, i + 1, Len(s))

\* What a step requested from the network and what the operation that ended
\* in it had settled: nothing, for a step that does neither.
NoStep == [requested |-> {}, profileOk |-> {}, profileFailed |-> {}, failed |-> FALSE]

\* err.message.includes("rate limit exceeded") (line 159)
IsRateLimitMessage(message) == message = RateLimitedMessage

\* How the three fetches of one username of a batch can end.
BatchOutcomes ==
    {[profile |-> RateLimitedMessage, repositories |-> "none", events |-> "none"],
     [profile |-> "ok", repositories |-> "ok", events |-> "ok"],
     [profile |-> "ok", repositories |-> RateLimitedMessage, events |-> "ok"],
     [profile |-> "ok", repositories |-> "ok", events |-> RateLimitedMessage]}

\* aggregatedStats.js lines 56-99 for one username whose fetches end as
\* `outcome` says.
RunUser(userData, username, outcome) ==
    IF outcome.profile # "ok"
    THEN ProfileFailure(userData, username, outcome.profile)
    ELSE LET profiled == ProfileSuccess(userData, username, RemoteUser(username))
             withRepos ==
                 IF ~Eligible(profiled, username) THEN profiled
                 ELSE IF outcome.repositories = "ok"
                 THEN SetUserField(profiled, username, "repositories",
                                   RemoteRepositories(username))
                 ELSE SetUserField(profiled, username, "repositoriesError",
                                   outcome.repositories)
         IN  IF ~Eligible(withRepos, username) THEN withRepos
             ELSE IF outcome.events = "ok"
             THEN SetUserField(withRepos, username, "events", RemoteEvents(username))
             ELSE SetUserField(withRepos, username, "eventsError", outcome.events)

RECURSIVE RunUsers(_, _, _)
RunUsers(userData, usernames, outcomes) ==
    IF usernames = <<>> THEN userData
    ELSE RunUsers(RunUser(userData, Head(usernames), outcomes[Head(usernames)]),
                  Tail(usernames), outcomes)

\* aggregatedStats.js lines 40-113: the value a run of fetchMultipleUsersData
\* resolves to when the rate-status query settles with `response` and the
\* fetches of each username end as `outcomes` says, the profile fetches
\* settling in the order of the list.
RunBatch(usernames, response, outcomes) ==
    LET status == checkRateLimit(Len(usernames), response)
        userData == RunUsers(InitialUserData(status), usernames, outcomes)
        hasAnyValidUser == \E u \in Range(usernames) : outcomes[u].profile = "ok"
    IN  FinalResult(userData, hasAnyValidUser)

\* The rate-status responses that decide the budget check of n usernames:
\* one call short of the estimate, and the estimate exactly.
BudgetResponses(n) ==
    {[fulfilled |-> TRUE, remaining |-> r, limit |-> n * CallsPerUser, reset |-> "10:00:00"] :
        r \in {n * CallsPerUser - 1, n * CallsPerUser}}

\* handleMultiSearch takes its success branch, the one that calls
\* setDeveloperCache (lines 252-291).
SetsCache(fetchedData) ==
    ~Has(fetchedData, "error") /\ ~Has(fetchedData, "rateLimitExceeded")

\* Lines 96-112: the effect that runs fetchGitHubData, up to its first await.
fetchGitHubData(s) ==
    IF s.username = "" THEN s
    ELSE IF s.username \in DOMAIN s.developerCache
    THEN [s EXCEPT !.displayed = ProfileOf(s.developerCache[s.username])]
    ELSE [s EXCEPT !.loading = TRUE,
                   !.error = Null,
                   !.singles = Append(@, [username |-> s.username, stage |-> "profile"]),
                   !.runs = @ + 1,
                   !.lastStep.requested = @ \cup {s.username}]

\* Lines 137-166: fetchGitHubData after its last await, and the effect that
\* the new developerCache runs again.
fetchGitHubDataSucceeds(s, i) ==
    LET name  == s.singles[i].username
        entry == CacheEntry(FullRecord(name))
        done  == [s EXCEPT
                    !.displayed = ProfileOf(entry),
                    !.rateLimitWarning = FALSE,
                    !.developerCache =
                        [u \in (DOMAIN @) \cup {name} |-> IF u = name THEN entry ELSE @[u]],
                    !.loading = FALSE,
                    !.singles = RemoveAt(@, i),
                    !.lastStep.profileOk = {name}]
    IN  fetchGitHubData(done)

\* Lines 155-166: an awaited fetch of fetchGitHubData rejects.
fetchGitHubDataFails(s, i, message) ==
    LET name  == s.singles[i].username
        stage == s.singles[i].stage
    IN  [s EXCEPT
            !.rateLimitWarning = IF IsRateLimitMessage(message) THEN TRUE ELSE @,
            !.error = message,
            !.loading = FALSE,
            !.singles = RemoveAt(@, i),
            !.lastStep.profileOk = IF stage = "profile" THEN {} ELSE {name},
            !.lastStep.profileFailed = IF stage = "profile" THEN {name} ELSE {},
            !.lastStep.failed = TRUE]

\* Lines 173-175, with the effect of lines 95-170 that a new username runs.
handleSearch(s, searchUsername) ==
    IF searchUsername = s.username THEN s
    ELSE fetchGitHubData([s EXCEPT !.username = searchUsername])

\* Lines 178-214 and 292-298: handleMultiSearch up to its await, or to its
\* end when every username is cached.
handleMultiSearch(s, list) ==
    LET cached  == CachedUsersOf(s.developerCache, list)
        toFetch == UsersToFetch(s.developerCache, list)
    IN  IF list = <<>> THEN s
        ELSE IF toFetch # <<>>
        THEN [s EXCEPT !.loading = TRUE,
                       !.error = Null,
                       !.multis = Append(@, [usernameList |-> list,
                                             usersToFetch |-> toFetch,
                                             cachedUsers |-> cached,
                                             developerCache |-> s.developerCache]),
                       !.runs = @ + 1,
                       !.lastStep.requested = @ \cup Range(toFetch)]
        ELSE [s EXCEPT !.error = Null,
                       !.multiUserData = buildCombinedUserData(cached, EmptyObject),
                       !.loading = FALSE]

\* Lines 214-298: the i-th waiting handleMultiSearch resumes with fetchedData,
\* and the effect runs again when the call has set developerCache.
handleMultiSearchResumes(s, i, fetchedData, outcomes) ==
    LET call  == s.multis[i]
        names == Range(call.usersToFetch)
        others == DOMAIN s.multis \ {i}
        beside == {s.multis[j] : j \in {k \in others :
                                          Range(s.multis[k].usersToFetch) \cap names = {}}}
        second == {h \in s.halfDone : h.waiting = call}
        ok    == {u \in names : outcomes[u].profile = "ok"}
        done  == [HandleFetched(fetchedData, call.cachedUsers, call.developerCache, s)
                    EXCEPT !.loading = FALSE,
                           !.multis = RemoveAt(s.multis, i),
                           !.halfDone = {h \in @ : h \notin second
                                                    \/ \E j \in others : s.multis[j] = call}
                                        \cup {[waiting |-> c, profileOk |-> ok] : c \in beside},
                           !.bothDone = {h.profileOk \cup ok : h \in second},
                           !.everOk = @ \cup {u \in names : outcomes[u].profile = "ok"},
                           !.lastStep.profileOk = {u \in names : outcomes[u].profile = "ok"},
                           !.lastStep.profileFailed = {u \in names : outcomes[u].profile # "ok"},
                           !.lastStep.failed = \E u \in names : outcomes[u].profile # "ok"]
    IN  IF SetsCache(fetchedData) THEN fetchGitHubData(done) ELSE done

\* Lines 322-335 and 815-831.
handleToggleChange(s) ==
    IF ~s.isAggregated
    THEN LET on == [s EXCEPT !.isAggregated = TRUE, !.username = "",
                             !.displayed = NoProfile]
         IN  IF s.usernameList # <<>> THEN handleMultiSearch(on, s.usernameList) ELSE on
    ELSE LET off == [s EXCEPT !.isAggregated = FALSE, !.multiUserData = NoData]
         IN  IF s.usernameList # <<>> THEN handleSearch(off, Head(s.usernameList)) ELSE off

\* Lines 787-813, for a name that passes the checks of lines 789 and 798.
handleSubmit(s, name) ==
    IF s.isAggregated
    THEN LET newList == Append(s.usernameList, name)
         IN  handleMultiSearch([s EXCEPT !.usernameList = newList], newList)
    ELSE handleSearch(s, name)

\* Lines 833-844.
handleRemoveUsername(s, usernameToRemove) ==
    LET newList == SelectSeq(s.usernameList, LAMBDA u : u # usernameToRemove)
        removed == [s EXCEPT !.usernameList = newList]
    IN  IF newList # <<>> /\ s.isAggregated
        THEN handleMultiSearch(removed, newList)
        ELSE removed

\* Lines 846-853, for a list of two or more.
handleCompareClick(s) == handleMultiSearch(s, s.usernameList)

\* ------------------------------------------------- dateFilterHelpers.js
\* Instants are whole hours since the epoch in UTC, calendar dates are day
\* numbers (as ToISODate gives them), and a time zone is its offset from UTC
\* in hours.
HoursPerDay == 24

\* Last calendar day the date inputs reach.
MaxDay == 3

\* new Date("YYYY-MM-DD"): a date-only string is the UTC midnight of its day.
ParseDate(day) == day * HoursPerDay

\* date.setHours(0, 0, 0, 0): the midnight that starts the local day of an
\* instant.
StartOfDay(instant, zone) == ((instant + zone) \div HoursPerDay) * HoursPerDay - zone

\* date.setHours(23, 59, 59, 999): the last moment of the local day.
EndOfDay(instant, zone) == StartOfDay(instant, zone) + HoursPerDay - 1

\* The local calendar day of an instant.
LocalDay(instant, zone) == (instant + zone) \div HoursPerDay

\* Lines 53-62: the indices of the labels in range.
KeptLabels(labels, start, end, zone) ==
    LET Kept(i) == LET date == StartOfDay(ParseDate(labels[i]), zone)
                   IN  date >= start /\ date <= end
        RECURSIVE Indices(_)
        Indices(i) == IF i > Len(labels) THEN <<>>
                      ELSE (IF Kept(i) THEN <<i>> ELSE <<>>) \o Indices(i + 1)
    IN  Indices(1)

\* A filter that swaps a reversed range.
filterCommitHistorySwapping(commitHistory, startDate, endDate, zone) ==
    IF commitHistory = NoData \/ ~Has(commitHistory, "labels") \/ ~Has(commitHistory, "data")
    THEN [labels |-> <<>>, data |-> <<>>]
    ELSE LET first == IF startDate <= endDate THEN startDate ELSE endDate
             last  == IF startDate <= endDate THEN endDate ELSE startDate
             start == StartOfDay(first, zone)
             end   == EndOfDay(last, zone)
             filteredIndices == KeptLabels(commitHistory.labels, start, end, zone)
         IN  [labels |-> [k \in DOMAIN filteredIndices |->
                             commitHistory.labels[filteredIndices[k]]],
              data   |-> [k \in DOMAIN filteredIndices |->
                             commitHistory.data[filteredIndices[k]]]]

\* Lines 34-71, run in the time zone `zone`.
filterCommitHistoryByDateRange(commitHistory, startDate, endDate, zone) ==
    IF commitHistory = NoData \/ ~Has(commitHistory, "labels") \/ ~Has(commitHistory, "data")
    THEN [labels |-> <<>>, data |-> <<>>]
    ELSE LET start == StartOfDay(startDate, zone)
             end   == EndOfDay(endDate, zone)
             filteredIndices == KeptLabels(commitHistory.labels, start, end, zone)
         IN  [labels |-> [k \in DOMAIN filteredIndices |->
                             commitHistory.labels[filteredIndices[k]]],
              data   |-> [k \in DOMAIN filteredIndices |->
                             commitHistory.data[filteredIndices[k]]]]

\* A filter that keeps what is updated up to the instant of the end date.
filterLanguageDataUpToInstant(repositories, startDate, endDate, zone) ==
    IF repositories = <<>>
    THEN [labels |-> <<>>, data |-> <<>>]
    ELSE LET start == StartOfDay(startDate, zone)
             filteredRepos ==
                 SelectSeq(repositories,
                           LAMBDA repo : repo.updated_at >= start
                                         /\ repo.updated_at <= endDate)
             languageCount == CountLanguages(EmptyObject, filteredRepos)
             labels == ObjectKeys(languageCount)
         IN  [labels |-> labels,
              data   |-> [i \in DOMAIN labels |-> languageCount.val[labels[i]]]]

\* Lines 81-116, run in the time zone `zone`, for an array of repositories.
filterLanguageDataByDateRange(repositories, startDate, endDate, zone) ==
    IF repositories = <<>>
    THEN [labels |-> <<>>, data |-> <<>>]
    ELSE LET start == StartOfDay(startDate, zone)
             end   == EndOfDay(endDate, zone)
             filteredRepos ==
                 SelectSeq(repositories,
                           LAMBDA repo : repo.updated_at >= start
                                         /\ repo.updated_at <= end)
             languageCount == CountLanguages(EmptyObject, filteredRepos)
             labels == ObjectKeys(languageCount)
         IN  [labels |-> labels,
              data   |-> [i \in DOMAIN labels |-> languageCount.val[labels[i]]]]

\* ------------------------------------------------------- generateColors
\* A color is its three channels <<r, g, b>>, each in 0..255, which is what
\* the seven characters of its hex string hold.

\* Largest count generateColors is called with.
MaxBars == 12

\* Lines 340-351.
baseColors ==
    << <<78, 121, 167>>,     \* #4e79a7
       <<242, 142, 44>>,     \* #f28e2c
       <<225, 87, 89>>,      \* #e15759
       <<118, 183, 178>>,    \* #76b7b2
       <<89, 161, 79>>,      \* #59a14f
       <<237, 201, 73>>,     \* #edc949
       <<175, 122, 161>>,    \* #af7aa1
       <<255, 157, 167>>,    \* #ff9da7
       <<156, 117, 95>>,     \* #9c755f
       <<186, 176, 171>> >>  \* #bab0ab

\* Math.round(x) of the fraction num / den, which is never at a tie here.
RoundFraction(num, den) == (2 * num + den) \div (2 * den)

\* Lines 383-394, the factor given as the fraction factor.num / factor.den:
\* each channel is Math.min(255, Math.round(channel * factor)).
modifyColorBrightness(hex, factor) ==
    [c \in 1..3 |->
        LET scaled == RoundFraction(hex[c] * factor.num, factor.den)
        IN  IF scaled < 255 THEN scaled ELSE 255]

\* Lines 362-372: the factor 0.8 + (colors.length / baseColors.length) * 0.4
\* is (8 * baseColors.length + 4 * colors.length) / (10 * baseColors.length).
RECURSIVE MoreColors(_, _)
MoreColors(colors, count) ==
    IF Len(colors) >= count THEN colors
    ELSE LET index     == Len(colors) % Len(baseColors)
             baseColor == baseColors[index + 1]
             factor    == [num |-> 8 * Len(baseColors) + 4 * Len(colors),
                           den |-> 10 * Len(baseColors)]
         IN  MoreColors(Append(colors, modifyColorBrightness(baseColor, factor)), count)

\* A palette whose loop runs once more.
generateColorsOneMore(count) ==
    IF count <= Len(baseColors)
    THEN SubSeq(baseColors, 1, count)
    ELSE MoreColors(baseColors, count + 1)

\* Lines 339-375, for a count that is a natural number.
generateColors(count) ==
    IF count <= Len(baseColors)
    THEN SubSeq(baseColors, 1, count)
    ELSE MoreColors(baseColors, count)

\* ------------------------------------------------------- UsernameInput
\* The text of the input field is the sequence of its characters.
\* The text as typed.
Untrimmed(text) == text

\* text.trim(): the text without its leading and trailing white space.
Trim(text) ==
    LET inked == {i \in DOMAIN text : text[i] \notin {" ", "\t"}}
    IN  IF inked = {} THEN <<>>
        ELSE SubSeq(text, CHOOSE i \in inked : \A j \in inked : i <= j,
                          CHOOSE i \in inked : \A j \in inked : i >= j)

\* The string of a sequence of characters.
RECURSIVE StringOf(_)
StringOf(chars) ==
    IF chars = <<>> THEN "" ELSE Head(chars) \o StringOf(Tail(chars))


VARIABLES
    pc,               \* where the search stands: "idle", then inside
                      \* fetchMultipleUsersData "rate", "profiles", "repos",
                      \* "events", "done", then "published"
    usernameList,     \* the list handleMultiSearch is called with
    developerCache,   \* Dashboard state: username -> cache entry
    multiUserData,    \* Dashboard state
    loading,          \* Dashboard state
    error,            \* Dashboard state
    rateLimitWarning, \* Dashboard state (the indicator flag)
    cachedUsers,      \* handleMultiSearch local
    closureCache,     \* the developerCache the running call closed over
    usernames,        \* argument of fetchMultipleUsersData (usersToFetch)
    rateQuery,        \* the getRateLimitStatus call: state and response
    rateLimitStatus,  \* what checkRateLimit returned
    userData,         \* the userData object of the run
    hasAnyValidUser,
    fetches,          \* per kind and username: "none", "pending", "ok" or the error message
    issued,           \* per kind and username: how many requests were sent
    rateCalls,        \* how many rate-status queries were sent
    promise,          \* state of the promise fetchMultipleUsersData returned
    result,           \* the value it resolved to
    selected,         \* Dashboard state `username`: the username of the individual view
    isAggregated,     \* Dashboard state: compare mode
    displayed,        \* Dashboard state: userData, repositories, repoStats, commitHistory
    singles,          \* the runs of fetchGitHubData in flight
    multis,           \* the calls of handleMultiSearch waiting for their batch
    runs,             \* how many fetch runs the session has started
    everOk,           \* history: usernames whose profile fetch has succeeded
    lastStep,         \* history: what the last step requested and settled
    halfDone,         \* history: the batches resolved beside a waiting batch over other ids
    bothDone,         \* history: the ids fetched by each such pair that the last step completed
    clock,            \* the calendar day new Date() reports
    calls,            \* history: the calls of calculateAggregatedStats made
    dateRange,        \* Dashboard state: [start, end], two instants
    timeZone,         \* the offset of the browser's time zone from UTC, in hours
    filteredCommitHistory,  \* the memoized filterCommitHistoryByDateRange(...)
    filteredLanguageData,   \* the memoized filterLanguageDataByDateRange(...)
    dataLength,       \* the count the next call of generateColors is given
    palettes,         \* history: the calls of generateColors made
    passed            \* history: what the last action of the form passed to onMultiSearch

dashboardVars == <<developerCache, multiUserData, loading, error, rateLimitWarning>>
callVars == <<usernameList, cachedUsers, closureCache, usernames>>
runVars == <<rateQuery, rateLimitStatus, userData, hasAnyValidUser, fetches, issued,
             rateCalls, promise, result>>
sessionVars == <<selected, isAggregated, displayed, singles, multis, runs, everOk, lastStep,
                 halfDone, bothDone>>
clockVars == <<clock, calls>>
filterVars == <<dateRange, timeZone, filteredCommitHistory, filteredLanguageData>>
chartVars == <<dataLength, palettes>>
vars == <<pc, dashboardVars, callVars, runVars, sessionVars, clockVars, filterVars,
          chartVars, passed>>

\* Dashboard.jsx lines 76-79: the range from 90 days back, which is before
\* every day of the model, to now.
InitialRange == [start |-> 0, end |-> ParseDate(Today)]

Users == Range(usernames)

Init ==
    /\ pc = "idle"
    /\ usernameList \in Batches
    /\ developerCache \in InitialCaches
    /\ multiUserData = NoData
    /\ loading = FALSE
    /\ error = Null
    /\ rateLimitWarning = FALSE
    /\ cachedUsers = EmptyObject
    /\ closureCache = developerCache
    /\ usernames = <<>>
    /\ rateQuery = [state |-> "none"]
    /\ rateLimitStatus = NoStatus
    /\ userData = EmptyObject
    /\ hasAnyValidUser = FALSE
    /\ fetches = NoFetches
    /\ issued = NoneIssued
    /\ rateCalls = 0
    /\ promise = "none"
    /\ result = NoResult
    /\ selected = ""
    /\ isAggregated = TRUE
    /\ displayed = NoProfile
    /\ singles = <<>>
    /\ multis = <<>>
    /\ runs = 0
    /\ everOk = DOMAIN developerCache
    /\ lastStep = NoStep
    /\ halfDone = {}
    /\ bothDone = {}
    /\ clock = Today
    /\ calls = <<>>
    /\ dateRange = InitialRange
    /\ timeZone = 0
    /\ filteredCommitHistory = NoData
    /\ filteredLanguageData = NoData
    /\ dataLength = 0
    /\ palettes = <<>>
    /\ passed = [called |-> FALSE]

\* Dashboard.jsx lines 178-214, then aggregatedStats.js lines 40-43 and 9-11:
\* handleMultiSearch splits the list by the cache and, with usernames left to
\* fetch, calls fetchMultipleUsersData, which runs up to the await of
\* getRateLimitStatus.
SearchAndFetch ==
    /\ pc = "idle"
    /\ UsersToFetch(developerCache, usernameList) # <<>>
    /\ loading' = TRUE
    /\ error' = Null
    /\ cachedUsers' = CachedUsersOf(developerCache, usernameList)
    /\ closureCache' = developerCache
    /\ usernames' = UsersToFetch(developerCache, usernameList)
    /\ fetches' = [k \in Kinds |-> [u \in Range(usernames') |-> "none"]]
    /\ issued' = [k \in Kinds |-> [u \in Range(usernames') |-> 0]]
    /\ rateQuery' = [state |-> "pending"]
    /\ rateCalls' = rateCalls + 1
    /\ promise' = "pending"
    /\ pc' = "rate"
    /\ UNCHANGED <<sessionVars, clockVars, filterVars, chartVars, passed>>
    /\ UNCHANGED <<usernameList, developerCache, multiUserData, rateLimitWarning,
                   rateLimitStatus, userData, hasAnyValidUser, result>>

\* Dashboard.jsx lines 178-211 and 292-298: every username is cached.
SearchAllCached ==
    /\ pc = "idle"
    /\ UsersToFetch(developerCache, usernameList) = <<>>
    /\ error' = Null
    /\ cachedUsers' = CachedUsersOf(developerCache, usernameList)
    /\ closureCache' = developerCache
    /\ multiUserData' = buildCombinedUserData(cachedUsers', EmptyObject)
    /\ loading' = FALSE
    /\ pc' = "published"
    /\ UNCHANGED <<sessionVars, clockVars, filterVars, chartVars, passed>>
    /\ UNCHANGED <<usernameList, developerCache, rateLimitWarning, usernames, runVars>>

\* A phase that sends each request and sends it again.
SendWithRetry(kind, targets) ==
    /\ fetches' = [fetches EXCEPT ![kind] =
                      [u \in DOMAIN @ |-> IF u \in targets THEN "pending" ELSE @[u]]]
    /\ issued' = [issued EXCEPT ![kind] =
                      [u \in DOMAIN @ |-> IF u \in targets THEN @[u] + 2 ELSE @[u]]]

\* The requests a phase sends: one per username in `targets`.
Send(kind, targets) ==
    /\ fetches' = [fetches EXCEPT ![kind] =
                      [u \in DOMAIN @ |-> IF u \in targets THEN "pending" ELSE @[u]]]
    /\ issued' = [issued EXCEPT ![kind] =
                      [u \in DOMAIN @ |-> IF u \in targets THEN @[u] + 1 ELSE @[u]]]

\* Lines 11-33 and 43-67: the rate-status query settles, checkRateLimit
\* returns, the warning is stored and every profile fetch is sent.
RateStatusSettles ==
    /\ pc = "rate"
    /\ \E response \in RateResponses :
          LET status == checkRateLimit(Len(usernames), response)
          IN  /\ rateQuery' = [state |-> "settled", response |-> response]
              /\ rateLimitStatus' = status
              /\ userData' = InitialUserData(status)
    /\ hasAnyValidUser' = FALSE
    /\ Send("profile", Users)
    /\ pc' = "profiles"
    /\ UNCHANGED <<sessionVars, clockVars, filterVars, chartVars, passed>>
    /\ UNCHANGED <<dashboardVars, callVars, rateCalls, promise, result>>

\* Lines 58-61: a profile fetch resolves.
ProfileFulfilled(username) ==
    /\ fetches["profile"][username] = "pending"
    /\ fetches' = [fetches EXCEPT !["profile"][username] = "ok"]
    /\ userData' = ProfileSuccess(userData, username, RemoteUser(username))
    /\ hasAnyValidUser' = TRUE
    /\ UNCHANGED <<sessionVars, clockVars, filterVars, chartVars, passed>>
    /\ UNCHANGED <<pc, dashboardVars, callVars, rateQuery, rateLimitStatus, issued,
                   rateCalls, promise, result>>

\* Lines 62-66: a profile fetch rejects.
ProfileRejected(username) ==
    /\ fetches["profile"][username] = "pending"
    /\ \E message \in FetchErrors("profile") :
          /\ fetches' = [fetches EXCEPT !["profile"][username] = message]
          /\ userData' = ProfileFailure(userData, username, message)
    /\ UNCHANGED <<sessionVars, clockVars, filterVars, chartVars, passed>>
    /\ UNCHANGED <<pc, dashboardVars, callVars, rateQuery, rateLimitStatus,
                   hasAnyValidUser, issued, rateCalls, promise, result>>

\* Lines 69-82: Promise.all(userPromises) resolves and the repository fetch of
\* every eligible username is sent.
StartRepositories ==
    /\ pc = "profiles"
    /\ AllSettled(fetches["profile"])
    /\ Send("repositories", {u \in Users : Eligible(userData, u)})
    /\ pc' = "repos"
    /\ UNCHANGED <<sessionVars, clockVars, filterVars, chartVars, passed>>
    /\ UNCHANGED <<dashboardVars, callVars, rateQuery, rateLimitStatus, userData,
                   hasAnyValidUser, rateCalls, promise, result>>

\* Lines 75-76.
RepositoriesFulfilled(username) ==
    /\ fetches["repositories"][username] = "pending"
    /\ fetches' = [fetches EXCEPT !["repositories"][username] = "ok"]
    /\ userData' = SetUserField(userData, username, "repositories",
                                RemoteRepositories(username))
    /\ UNCHANGED <<sessionVars, clockVars, filterVars, chartVars, passed>>
    /\ UNCHANGED <<pc, dashboardVars, callVars, rateQuery, rateLimitStatus,
                   hasAnyValidUser, issued, rateCalls, promise, result>>

\* Lines 77-80.
RepositoriesRejected(username) ==
    /\ fetches["repositories"][username] = "pending"
    /\ \E message \in FetchErrors("repositories") :
          /\ fetches' = [fetches EXCEPT !["repositories"][username] = message]
          /\ userData' = SetUserField(userData, username, "repositoriesError", message)
    /\ UNCHANGED <<sessionVars, clockVars, filterVars, chartVars, passed>>
    /\ UNCHANGED <<pc, dashboardVars, callVars, rateQuery, rateLimitStatus,
                   hasAnyValidUser, issued, rateCalls, promise, result>>

\* Lines 84-97: Promise.all(repoPromises) resolves and the events fetch of
\* every eligible username is sent.
StartEvents ==
    /\ pc = "repos"
    /\ AllSettled(fetches["repositories"])
    /\ Send("events", {u \in Users : Eligible(userData, u)})
    /\ pc' = "events"
    /\ UNCHANGED <<sessionVars, clockVars, filterVars, chartVars, passed>>
    /\ UNCHANGED <<dashboardVars, callVars, rateQuery, rateLimitStatus, userData,
                   hasAnyValidUser, rateCalls, promise, result>>

\* Lines 90-91.
EventsFulfilled(username) ==
    /\ fetches["events"][username] = "pending"
    /\ fetches' = [fetches EXCEPT !["events"][username] = "ok"]
    /\ userData' = SetUserField(userData, username, "events", RemoteEvents(username))
    /\ UNCHANGED <<sessionVars, clockVars, filterVars, chartVars, passed>>
    /\ UNCHANGED <<pc, dashboardVars, callVars, rateQuery, rateLimitStatus,
                   hasAnyValidUser, issued, rateCalls, promise, result>>

\* Lines 92-95.
EventsRejected(username) ==
    /\ fetches["events"][username] = "pending"
    /\ \E message \in FetchErrors("events") :
          /\ fetches' = [fetches EXCEPT !["events"][username] = message]
          /\ userData' = SetUserField(userData, username, "eventsError", message)
    /\ UNCHANGED <<sessionVars, clockVars, filterVars, chartVars, passed>>
    /\ UNCHANGED <<pc, dashboardVars, callVars, rateQuery, rateLimitStatus,
                   hasAnyValidUser, issued, rateCalls, promise, result>>

\* Lines 99-113: Promise.all(eventsPromises) resolves and the run returns.
Finish ==
    /\ pc = "events"
    /\ AllSettled(fetches["events"])
    /\ result' = FinalResult(userData, hasAnyValidUser)
    /\ promise' = "fulfilled"
    /\ pc' = "done"
    /\ UNCHANGED <<sessionVars, clockVars, filterVars, chartVars, passed>>
    /\ UNCHANGED <<dashboardVars, callVars, rateQuery, rateLimitStatus, userData,
                   hasAnyValidUser, fetches, issued, rateCalls>>

\* Dashboard.jsx lines 214-298: handleMultiSearch resumes with fetchedData.
Publish ==
    /\ pc = "done"
    /\ LET after == HandleFetched(result, cachedUsers, closureCache,
                                  [developerCache |-> developerCache,
                                   multiUserData |-> multiUserData,
                                   error |-> error,
                                   rateLimitWarning |-> rateLimitWarning])
       IN  /\ developerCache' = after.developerCache
           /\ multiUserData' = after.multiUserData
           /\ error' = after.error
           /\ rateLimitWarning' = after.rateLimitWarning
    /\ loading' = FALSE
    /\ pc' = "published"
    /\ UNCHANGED <<sessionVars, clockVars, filterVars, chartVars, passed>>
    /\ UNCHANGED <<callVars, runVars>>

Next ==
    \/ SearchAndFetch
    \/ SearchAllCached
    \/ RateStatusSettles
    \/ \E u \in Users : ProfileFulfilled(u)
    \/ \E u \in Users : ProfileRejected(u)
    \/ StartRepositories
    \/ \E u \in Users : RepositoriesFulfilled(u)
    \/ \E u \in Users : RepositoriesRejected(u)
    \/ StartEvents
    \/ \E u \in Users : EventsFulfilled(u)
    \/ \E u \in Users : EventsRejected(u)
    \/ Finish
    \/ Publish

Spec == Init /\ [][Next]_vars

\* The same call when every request that is sent settles: the rate-status
\* query and each fetch either resolves or rejects (the network), and a
\* function whose awaited promise has settled goes on (the event loop).
Settle(username) ==
    /\ username \in Users
    /\ \/ ProfileFulfilled(username)
       \/ ProfileRejected(username)
       \/ RepositoriesFulfilled(username)
       \/ RepositoriesRejected(username)
       \/ EventsFulfilled(username)
       \/ EventsRejected(username)

\* fetchMultipleUsersData goes on after an await of Promise.all (lines 69, 84
\* and 99): within Spec these are the steps StartRepositories, StartEvents and
\* Finish, told by where they take the run.
Resume ==
    \/ pc = "profiles" /\ AllSettled(fetches["profile"]) /\ pc' = "repos"
    \/ pc = "repos" /\ AllSettled(fetches["repositories"]) /\ pc' = "events"
    \/ pc = "events" /\ AllSettled(fetches["events"]) /\ pc' = "done"

Settling ==
    /\ Spec
    /\ WF_vars(RateStatusSettles)
    /\ \A username \in Ids : WF_vars(Settle(username))
    /\ WF_pc(Resume)

\* ------------------------------------------------------------ the session
\* A session of the Dashboard: searches in the
\* individual view and in compare mode, each starting its fetch run unless the
\* cache serves it, with any number of runs in flight at once.  A run of
\* fetchGitHubData is followed await by await; a run of fetchMultipleUsersData
\* is one step, the one in which its promise resolves (its inside is Spec).
\* The session holds no token, so the contribution statistics are not fetched.
searchVars == <<pc, cachedUsers, closureCache, usernames, runVars>>

\* The state a handler starts from.
Now ==
    [username |-> selected, isAggregated |-> isAggregated,
     usernameList |-> usernameList, developerCache |-> developerCache,
     multiUserData |-> multiUserData, loading |-> loading, error |-> error,
     rateLimitWarning |-> rateLimitWarning, displayed |-> displayed,
     singles |-> singles, multis |-> multis, runs |-> runs, everOk |-> everOk,
     lastStep |-> NoStep, halfDone |-> halfDone, bothDone |-> {}]

\* The state a handler leaves, within the runs the session is followed through.
Becomes(s) ==
    /\ s.runs <= MaxRuns
    /\ selected' = s.username
    /\ isAggregated' = s.isAggregated
    /\ usernameList' = s.usernameList
    /\ developerCache' = s.developerCache
    /\ multiUserData' = s.multiUserData
    /\ loading' = s.loading
    /\ error' = s.error
    /\ rateLimitWarning' = s.rateLimitWarning
    /\ displayed' = s.displayed
    /\ singles' = s.singles
    /\ multis' = s.multis
    /\ runs' = s.runs
    /\ everOk' = s.everOk
    /\ lastStep' = s.lastStep
    /\ halfDone' = s.halfDone
    /\ bothDone' = s.bothDone
    /\ UNCHANGED <<searchVars, clockVars, filterVars, chartVars, passed>>

\* The session starts at rest in the individual view, after any earlier
\* searches: some usernames listed for compare mode, some cached, the first of
\* the list selected (as the switch back from compare mode leaves it) and shown
\* if it is cached, its failed fetch reported if it is not.
AtRest(ids) ==
    /\ pc = "idle"
    /\ usernameList \in DistinctSeqs(ids, MaxUsers)
    /\ developerCache \in CachesAtRest(ids)
    /\ multiUserData = NoData
    /\ loading = FALSE
    /\ selected = IF usernameList = <<>> THEN "" ELSE Head(usernameList)
    /\ displayed = IF selected \in DOMAIN developerCache
                   THEN ProfileOf(developerCache[selected])
                   ELSE NoProfile
    /\ error = IF selected = "" \/ selected \in DOMAIN developerCache
               THEN Null
               ELSE RateLimitedMessage
    /\ rateLimitWarning = (error # Null)
    /\ cachedUsers = EmptyObject
    /\ closureCache = developerCache
    /\ usernames = <<>>
    /\ rateQuery = [state |-> "none"]
    /\ rateLimitStatus = NoStatus
    /\ userData = EmptyObject
    /\ hasAnyValidUser = FALSE
    /\ fetches = NoFetches
    /\ issued = NoneIssued
    /\ rateCalls = 0
    /\ promise = "none"
    /\ result = NoResult
    /\ isAggregated = FALSE
    /\ singles = <<>>
    /\ multis = <<>>
    /\ runs = 0
    /\ everOk = DOMAIN developerCache
    /\ lastStep = NoStep
    /\ halfDone = {}
    /\ bothDone = {}
    /\ clock = Today
    /\ calls = <<>>
    /\ dateRange = InitialRange
    /\ timeZone = 0
    /\ filteredCommitHistory = NoData
    /\ filteredLanguageData = NoData
    /\ dataLength = 0
    /\ palettes = <<>>
    /\ passed = [called |-> FALSE]

\* Dashboard.jsx lines 787-813: the form is submitted with a name; the form
\* is disabled while loading.
Submit(name) ==
    /\ ~loading
    /\ IF isAggregated
       THEN name \notin Range(usernameList) /\ Len(usernameList) < MaxUsers
       ELSE name # selected
    /\ Becomes(handleSubmit(Now, name))

\* Lines 815-831: the compare-mode switch, disabled while loading.
Toggle ==
    /\ ~loading
    /\ Becomes(handleToggleChange(Now))

\* Lines 833-844: a chip of the list is deleted; chips are never disabled.
Remove(name) ==
    /\ isAggregated
    /\ name \in Range(usernameList)
    /\ Becomes(handleRemoveUsername(Now, name))

\* Lines 846-853: the Compare button, shown for two or more names and never
\* disabled.
Compare ==
    /\ isAggregated
    /\ Len(usernameList) >= 2
    /\ Becomes(handleCompareClick(Now))

\* Lines 116-119: fetchUserData resolves and fetchRepositories is sent.
SingleProfileFulfilled(i) ==
    /\ singles[i].stage = "profile"
    /\ Becomes([Now EXCEPT !.singles[i].stage = "repositories",
                           !.everOk = @ \cup {singles[i].username}])

\* Lines 119-125: fetchRepositories resolves and fetchUserEvents is sent.
SingleRepositoriesFulfilled(i) ==
    /\ singles[i].stage = "repositories"
    /\ Becomes([Now EXCEPT !.singles[i].stage = "events"])

\* Lines 125-154 and 164-166: fetchUserEvents resolves.
SingleEventsFulfilled(i) ==
    /\ singles[i].stage = "events"
    /\ Becomes(fetchGitHubDataSucceeds(Now, i))

\* Lines 155-166: the awaited fetch rejects.
SingleFetchRejected(i) ==
    \E message \in FetchErrors(singles[i].stage) :
        Becomes(fetchGitHubDataFails(Now, i, message))

\* Lines 214-298: the batch of the i-th waiting handleMultiSearch resolves.
BatchResolves(i) ==
    \E response \in BudgetResponses(Len(multis[i].usersToFetch)) :
        \E outcomes \in [Range(multis[i].usersToFetch) -> BatchOutcomes] :
            Becomes(handleMultiSearchResumes(
                        Now, i,
                        RunBatch(multis[i].usersToFetch, response, outcomes),
                        outcomes))

Step(ids) ==
    \/ \E name \in ids : Submit(name)
    \/ Toggle
    \/ \E name \in ids : Remove(name)
    \/ Compare
    \/ \E i \in DOMAIN singles : SingleProfileFulfilled(i)
    \/ \E i \in DOMAIN singles : SingleRepositoriesFulfilled(i)
    \/ \E i \in DOMAIN singles : SingleEventsFulfilled(i)
    \/ \E i \in DOMAIN singles : SingleFetchRejected(i)
    \/ \E i \in DOMAIN multis : BatchResolves(i)

SessionInit == AtRest(SessionIds)

SessionNext == Step(SessionIds)

Session == SessionInit /\ [][SessionNext]_vars

\* ------------------------------------------------- a session of three names
\* The same session with a third username to search for, which is what it
\* takes for two batches over different usernames to wait at the same time.
OverlapIds == SessionIds \cup {"c"}

OverlapInit == AtRest(OverlapIds)

OverlapNext == Step(OverlapIds)

Overlap == OverlapInit /\ [][OverlapNext]_vars

\* ------------------------------------------------- merge and aggregation
\* buildCombinedUserData, and with it calculateAggregatedStats, as functions:
\* applied once to any cached subset and any fetched userData of up to
\* MaxUsers records together.

\* The event lists a fetched record can hold.
AnyEvents == {RemoteEvents(u) : u \in Ids} \cup {<<>>}

\* The records fetchMultipleUsersData can leave under a username (lines 56-99).
FetchedRecords(username) ==
    LET profile == [user |-> RemoteUser(username)]
        WithRepositories(ok) ==
            IF ok THEN SetField(profile, "repositories", RemoteRepositories(username))
            ELSE SetField(profile, "repositoriesError", RateLimitedMessage)
    IN  {[error |-> RateLimitedMessage]}
        \cup {SetField(WithRepositories(ok), "events", events) :
                 ok \in BOOLEAN, events \in AnyEvents}
        \cup {SetField(WithRepositories(ok), "eventsError", RateLimitedMessage) :
                 ok \in BOOLEAN}

\* The userData objects that hold `start` and then a record for each username
\* of the list, in its order.
RECURSIVE FetchedOver(_, _)
FetchedOver(start, list) ==
    IF list = <<>> THEN {start}
    ELSE LET last == list[Len(list)]
         IN  {Put(fetched, last, rec) :
                 fetched \in FetchedOver(start, SubSeq(list, 1, Len(list) - 1)),
                 rec \in FetchedRecords(last)}

\* userData as fetchMultipleUsersData starts it: empty, or with the warning.
FetchedStarts ==
    {EmptyObject, InitialUserData([sufficient |-> FALSE, resetTime |-> "10:00:00"])}

\* The cache entries a username can have: made from a complete record or from
\* a profile alone (lines 266-274).
CacheEntries(username) ==
    {CacheEntry(FullRecord(username)), CacheEntry([user |-> RemoteUser(username)])}

RECURSIVE CachedOver(_)
CachedOver(list) ==
    IF list = <<>> THEN {EmptyObject}
    ELSE LET last == list[Len(list)]
         IN  {Put(cached, last, entry) :
                 cached \in CachedOver(SubSeq(list, 1, Len(list) - 1)),
                 entry \in CacheEntries(last)}

MergeInit ==
    /\ pc = "merge"
    /\ \E cachedList \in DistinctSeqs(Ids, MaxUsers),
          fetchedList \in DistinctSeqs(Ids, MaxUsers), start \in FetchedStarts :
          /\ Len(cachedList) + Len(fetchedList) <= MaxUsers
          /\ cachedUsers \in CachedOver(cachedList)
          /\ userData \in FetchedOver(start, fetchedList)
    /\ multiUserData = NoData
    /\ usernameList = <<>>
    /\ developerCache = [u \in {} |-> NoData]
    /\ loading = FALSE
    /\ error = Null
    /\ rateLimitWarning = FALSE
    /\ closureCache = developerCache
    /\ usernames = <<>>
    /\ rateQuery = [state |-> "none"]
    /\ rateLimitStatus = NoStatus
    /\ hasAnyValidUser = FALSE
    /\ fetches = NoFetches
    /\ issued = NoneIssued
    /\ rateCalls = 0
    /\ promise = "none"
    /\ result = NoResult
    /\ selected = ""
    /\ isAggregated = TRUE
    /\ displayed = NoProfile
    /\ singles = <<>>
    /\ multis = <<>>
    /\ runs = 0
    /\ everOk = {}
    /\ lastStep = NoStep
    /\ halfDone = {}
    /\ bothDone = {}
    /\ clock = Today
    /\ calls = <<>>
    /\ dateRange = InitialRange
    /\ timeZone = 0
    /\ filteredCommitHistory = NoData
    /\ filteredLanguageData = NoData
    /\ dataLength = 0
    /\ palettes = <<>>
    /\ passed = [called |-> FALSE]

\* Dashboard.jsx lines 302-319.
Combine ==
    /\ pc = "merge"
    /\ multiUserData' = buildCombinedUserData(cachedUsers, userData)
    /\ pc' = "merged"
    /\ UNCHANGED <<developerCache, loading, error, rateLimitWarning, callVars, runVars,
                   sessionVars, clockVars, filterVars, chartVars, passed>>

MergeNext == Combine

Merge == MergeInit /\ [][MergeNext]_vars

\* --------------------------------------------- two calls of the aggregation
\* calculateAggregatedStats called twice by a caller that holds one userData,
\* while the calendar day may change before and between the calls.

\* Most midnights the clock passes.
MaxDays == 1

CallsInit ==
    /\ pc = "first"
    /\ \E list \in DistinctSeqs(Ids, MaxUsers), start \in FetchedStarts :
          userData \in FetchedOver(start, list)
    /\ clock = Today
    /\ calls = <<>>
    /\ dateRange = InitialRange
    /\ timeZone = 0
    /\ filteredCommitHistory = NoData
    /\ filteredLanguageData = NoData
    /\ dataLength = 0
    /\ palettes = <<>>
    /\ passed = [called |-> FALSE]
    /\ cachedUsers = EmptyObject
    /\ multiUserData = NoData
    /\ usernameList = <<>>
    /\ developerCache = [u \in {} |-> NoData]
    /\ loading = FALSE
    /\ error = Null
    /\ rateLimitWarning = FALSE
    /\ closureCache = developerCache
    /\ usernames = <<>>
    /\ rateQuery = [state |-> "none"]
    /\ rateLimitStatus = NoStatus
    /\ hasAnyValidUser = FALSE
    /\ fetches = NoFetches
    /\ issued = NoneIssued
    /\ rateCalls = 0
    /\ promise = "none"
    /\ result = NoResult
    /\ selected = ""
    /\ isAggregated = TRUE
    /\ displayed = NoProfile
    /\ singles = <<>>
    /\ multis = <<>>
    /\ runs = 0
    /\ everOk = {}
    /\ lastStep = NoStep
    /\ halfDone = {}
    /\ bothDone = {}

\* aggregatedStats.js lines 223-332: one call.  The function assigns to its
\* own locals only, so the caller's userData is what it was.
Call ==
    /\ pc \in {"first", "second"}
    /\ calls' = Append(calls, [at |-> clock, given |-> userData,
                               returned |-> calculateAggregatedStatsAt(userData, clock)])
    /\ userData' = userData
    /\ pc' = IF pc = "first" THEN "second" ELSE "returned"
    /\ UNCHANGED <<clock, dashboardVars, callVars, sessionVars, filterVars, chartVars, passed,
                   rateQuery,
                   rateLimitStatus, hasAnyValidUser, fetches, issued, rateCalls, promise,
                   result>>

\* The calendar day changes.
Midnight ==
    /\ pc \in {"first", "second"}
    /\ clock < Today + MaxDays
    /\ clock' = clock + 1
    /\ UNCHANGED <<pc, calls, dashboardVars, callVars, runVars, sessionVars, filterVars,
                   chartVars, passed>>

CallsNext == Call \/ Midnight

Calls == CallsInit /\ [][CallsNext]_vars

\* ------------------------------------------------------- the date filters
\* The two memoized filters of the individual view (Dashboard.jsx lines
\* 337-352), applied once to a commit history, a repository list and a date
\* range drawn from bounded sets, in a time zone west of, at or east of UTC.

\* The offsets from UTC, in hours.
TimeZones == {-5, 0, 2}

\* The hours of a day at which the inputs fall.
Hours == {0, 12, HoursPerDay - 1}

\* The instants a date of the range can be: any hour of Hours on a day of
\* 1..MaxDay.
Instants == {day * HoursPerDay + hour : day \in 1..MaxDay, hour \in Hours}

\* A commit history with one label for each day of 0..MaxDay+1 and a value
\* that tells the days apart.
FullHistory ==
    [labels |-> [i \in 1..(MaxDay + 2) |-> i - 1],
     data   |-> [i \in 1..(MaxDay + 2) |-> i]]

\* The values of the state commitHistory: null, without data, empty, full.
Histories ==
    {NoData, [labels |-> <<1>>], [labels |-> <<>>, data |-> <<>>], FullHistory}

\* Repositories updated at each hour of Hours of each day of 0..MaxDay+1,
\* their languages in turn Go, none, Rust, Go.
DatedRepositories ==
    LET languages == <<"Go", Null, "Rust", "Go">>
        hours == SortSet(Hours)
    IN  [i \in 1..((MaxDay + 2) * Len(hours)) |->
            [name |-> i,
             language |-> languages[((i - 1) % Len(languages)) + 1],
             updated_at |-> ((i - 1) \div Len(hours)) * HoursPerDay
                            + hours[((i - 1) % Len(hours)) + 1]]]

FilterInit ==
    /\ pc = "filter"
    /\ dateRange \in [start : Instants, end : Instants]
    /\ timeZone \in TimeZones
    /\ \E commitHistory \in Histories, repositories \in {<<>>, DatedRepositories} :
          displayed = [NoProfile EXCEPT !.commitHistory = commitHistory,
                                        !.repositories = repositories]
    /\ filteredCommitHistory = NoData
    /\ filteredLanguageData = NoData
    /\ dataLength = 0
    /\ palettes = <<>>
    /\ passed = [called |-> FALSE]
    /\ clock = Today
    /\ calls = <<>>
    /\ userData = EmptyObject
    /\ cachedUsers = EmptyObject
    /\ multiUserData = NoData
    /\ usernameList = <<>>
    /\ developerCache = [u \in {} |-> NoData]
    /\ loading = FALSE
    /\ error = Null
    /\ rateLimitWarning = FALSE
    /\ closureCache = developerCache
    /\ usernames = <<>>
    /\ rateQuery = [state |-> "none"]
    /\ rateLimitStatus = NoStatus
    /\ hasAnyValidUser = FALSE
    /\ fetches = NoFetches
    /\ issued = NoneIssued
    /\ rateCalls = 0
    /\ promise = "none"
    /\ result = NoResult
    /\ selected = ""
    /\ isAggregated = FALSE
    /\ singles = <<>>
    /\ multis = <<>>
    /\ runs = 0
    /\ everOk = {}
    /\ lastStep = NoStep
    /\ halfDone = {}
    /\ bothDone = {}

\* Dashboard.jsx lines 338-344.
FilterCommits ==
    /\ pc = "filter"
    /\ filteredCommitHistory = NoData
    /\ filteredCommitHistory' =
           filterCommitHistoryByDateRange(displayed.commitHistory, dateRange.start,
                                          dateRange.end, timeZone)
    /\ UNCHANGED <<pc, dashboardVars, callVars, runVars, sessionVars, clockVars, chartVars,
                   passed, dateRange, timeZone, filteredLanguageData>>

\* Dashboard.jsx lines 346-352.
FilterLanguages ==
    /\ pc = "filter"
    /\ filteredLanguageData = NoData
    /\ filteredLanguageData' =
           filterLanguageDataByDateRange(displayed.repositories, dateRange.start,
                                         dateRange.end, timeZone)
    /\ UNCHANGED <<pc, dashboardVars, callVars, runVars, sessionVars, clockVars, chartVars,
                   passed, dateRange, timeZone, filteredCommitHistory>>

FilterNext == FilterCommits \/ FilterLanguages

Filter == FilterInit /\ [][FilterNext]_vars

\* --------------------------------------------------- the comparison chart
\* generateColors is exported and called with a count; ComparisonChart.jsx
\* line 58 calls it at every render with the length of its data, which changes
\* from render to render (the chart itself returns before the call when the
\* data is empty, line 40; other callers may pass 0).
PaletteInit ==
    /\ pc = "render"
    /\ dataLength \in 0..MaxBars
    /\ palettes = <<>>
    /\ passed = [called |-> FALSE]
    /\ dateRange = InitialRange
    /\ timeZone = 0
    /\ filteredCommitHistory = NoData
    /\ filteredLanguageData = NoData
    /\ clock = Today
    /\ calls = <<>>
    /\ userData = EmptyObject
    /\ cachedUsers = EmptyObject
    /\ multiUserData = NoData
    /\ usernameList = <<>>
    /\ developerCache = [u \in {} |-> NoData]
    /\ loading = FALSE
    /\ error = Null
    /\ rateLimitWarning = FALSE
    /\ closureCache = developerCache
    /\ usernames = <<>>
    /\ rateQuery = [state |-> "none"]
    /\ rateLimitStatus = NoStatus
    /\ hasAnyValidUser = FALSE
    /\ fetches = NoFetches
    /\ issued = NoneIssued
    /\ rateCalls = 0
    /\ promise = "none"
    /\ result = NoResult
    /\ selected = ""
    /\ isAggregated = TRUE
    /\ displayed = NoProfile
    /\ singles = <<>>
    /\ multis = <<>>
    /\ runs = 0
    /\ everOk = {}
    /\ lastStep = NoStep
    /\ halfDone = {}
    /\ bothDone = {}

\* One call of generateColors(dataLength).
Render ==
    /\ pc \in {"render", "rerender"}
    /\ palettes' = Append(palettes, [count |-> dataLength,
                                     colors |-> generateColors(dataLength)])
    /\ pc' = IF pc = "render" THEN "rerender" ELSE "rendered"
    /\ UNCHANGED <<dataLength, dashboardVars, callVars, runVars, sessionVars, clockVars,
                   filterVars, passed>>

\* The next call is given another count.
NewData ==
    /\ pc \in {"render", "rerender"}
    /\ \E n \in 0..MaxBars : n # dataLength /\ dataLength' = n
    /\ UNCHANGED <<pc, palettes, dashboardVars, callVars, runVars, sessionVars, clockVars,
                   filterVars, passed>>

PaletteNext == Render \/ NewData

Palette == PaletteInit /\ [][PaletteNext]_vars

\* ------------------------------------------------ the form of UsernameInput
\* The component's list and what its handlers pass to the callbacks of the
\* Dashboard; the searches the callbacks start are the subject of Session.
FormInit ==
    /\ pc = "form"
    /\ usernameList = <<>>
    /\ passed = [called |-> FALSE]
    /\ isAggregated = FALSE
    /\ selected = ""
    /\ dataLength = 0
    /\ palettes = <<>>
    /\ dateRange = InitialRange
    /\ timeZone = 0
    /\ filteredCommitHistory = NoData
    /\ filteredLanguageData = NoData
    /\ clock = Today
    /\ calls = <<>>
    /\ userData = EmptyObject
    /\ cachedUsers = EmptyObject
    /\ multiUserData = NoData
    /\ developerCache = [u \in {} |-> NoData]
    /\ loading = FALSE
    /\ error = Null
    /\ rateLimitWarning = FALSE
    /\ closureCache = developerCache
    /\ usernames = <<>>
    /\ rateQuery = [state |-> "none"]
    /\ rateLimitStatus = NoStatus
    /\ hasAnyValidUser = FALSE
    /\ fetches = NoFetches
    /\ issued = NoneIssued
    /\ rateCalls = 0
    /\ promise = "none"
    /\ result = NoResult
    /\ displayed = NoProfile
    /\ singles = <<>>
    /\ multis = <<>>
    /\ runs = 0
    /\ everOk = {}
    /\ lastStep = NoStep
    /\ halfDone = {}
    /\ bothDone = {}

\* handleSubmit with `text` in the input field (lines 787-813): an empty
\* trimmed text and a name already in the list only set the message of the
\* form; in compare mode the trimmed name is appended and the new list is
\* passed to onMultiSearch, otherwise the trimmed name goes to onSearch,
\* which sets the username of the Dashboard (line 174).
FormSubmit(text) ==
    LET name    == StringOf(Trim(text))
        given   == Trim(text) # <<>>
        adds    == given /\ isAggregated /\ name \notin Range(usernameList)
        newList == Append(usernameList, name)
    IN  /\ pc = "form"
        /\ adds => Len(usernameList) < MaxUsers
        /\ usernameList' = IF adds THEN newList ELSE usernameList
        /\ passed' = IF adds THEN [called |-> TRUE, by |-> "add", list |-> newList]
                     ELSE [called |-> FALSE]
        /\ selected' = IF given /\ ~isAggregated THEN name ELSE selected
        /\ UNCHANGED <<pc, isAggregated,
                       dashboardVars, cachedUsers, closureCache, usernames, runVars,
                       displayed, singles, multis, runs, everOk, lastStep, halfDone, bothDone,
                       clockVars, filterVars, chartVars>>

\* handleToggleChange (lines 815-831) with handleAggregatedToggle (lines
\* 322-335): to compare mode the username of the Dashboard is cleared and a
\* list that has names is passed to onMultiSearch; to the individual view the
\* first name of the list goes to onSearch.
FormToggle ==
    /\ pc = "form"
    /\ isAggregated' = ~isAggregated
    /\ selected' = IF ~isAggregated THEN ""
                   ELSE IF usernameList # <<>> THEN Head(usernameList) ELSE selected
    /\ passed' = IF ~isAggregated /\ usernameList # <<>>
                 THEN [called |-> TRUE, by |-> "switch", list |-> usernameList]
                 ELSE [called |-> FALSE]
    /\ UNCHANGED <<pc, usernameList,
                   dashboardVars, cachedUsers, closureCache, usernames, runVars,
                   displayed, singles, multis, runs, everOk, lastStep, halfDone, bothDone,
                   clockVars, filterVars, chartVars>>

\* handleRemoveUsername(name) (lines 833-844), from the chip of a name; the
\* chips are rendered in compare mode only.
FormRemove(name) ==
    LET newList == SelectSeq(usernameList, LAMBDA u : u # name)
    IN  /\ pc = "form"
        /\ isAggregated
        /\ name \in Range(usernameList)
        /\ usernameList' = newList
        /\ passed' = IF newList # <<>> /\ isAggregated
                     THEN [called |-> TRUE, by |-> "remove", list |-> newList]
                     ELSE [called |-> FALSE]
        /\ UNCHANGED <<pc, isAggregated, selected,
                       dashboardVars, cachedUsers, closureCache, usernames, runVars,
                       displayed, singles, multis, runs, everOk, lastStep, halfDone, bothDone,
                       clockVars, filterVars, chartVars>>

\* handleCompareClick (lines 846-853); the button is rendered in compare mode
\* for a list of more than one name.
FormCompare ==
    /\ pc = "form"
    /\ isAggregated
    /\ Len(usernameList) >= 2
    /\ passed' = [called |-> TRUE, by |-> "compare", list |-> usernameList]
    /\ UNCHANGED <<pc, usernameList, isAggregated, selected,
                   dashboardVars, cachedUsers, closureCache, usernames, runVars,
                   displayed, singles, multis, runs, everOk, lastStep, halfDone, bothDone,
                   clockVars, filterVars, chartVars>>

\* The texts typed: nothing, white space only, names bare and padded, a name
\* with a space inside.
FormNext ==
    \/ \E text \in {<<>>, <<" ">>, <<"\t", " ">>, <<"a">>, <<" ", "a">>, <<"a", "\t">>,
                    <<"b">>, <<" ", "b", " ">>, <<"a", " ", "b">>, <<"c">>} :
           FormSubmit(text)
    \/ FormToggle
    \/ \E name \in Range(usernameList) : FormRemove(name)
    \/ FormCompare

Form == FormInit /\ [][FormNext]_vars

\* ------------------------------------------------------------ properties
Metrics == {"repositories", "followers", "stars", "forks"}

Settled(kind, username) == fetches[kind][username] \notin {"none", "pending"}
Failed(kind, username) == fetches[kind][username] \in ErrorMessages
Succeeded(kind, username) == fetches[kind][username] = "ok"

\* The usernames of a comparison array, in its order.
NamesOf(comparison) == [i \in DOMAIN comparison |-> comparison[i].username]

Resolved == Has(result, "userData")
Aggregated == Has(result, "aggregatedData")

\* C1: when a batch of N usernames yields aggregatedData, each of the four
\* comparison arrays has exactly N entries, one per requested username, and
\* the entry of a username whose profile fetch failed has value 0.
C1_OneEntryPerRequestedId ==
    Aggregated =>
        \A m \in Metrics :
            LET c == result.aggregatedData.userComparisons[m]
            IN  /\ Len(c) = Len(usernames)
                /\ \A u \in Users :
                      /\ Cardinality({i \in DOMAIN c : c[i].username = u}) = 1
                      /\ Failed("profile", u) =>
                            \A i \in DOMAIN c : c[i].username = u => c[i].value = 0

\* C2: in every comparison array the i-th entry belongs to the i-th username
\* of the caller's list, whatever the order in which the profile fetches
\* settle (the aggregate of fetchMultipleUsersData against its argument) and
\* also when cached and fetched usernames are combined (the aggregate that
\* handleMultiSearch publishes against its usernameList).  Stated for lists
\* without the reserved key, which C1 is about.
C2_ComparisonsInRequestOrder ==
    /\ (Aggregated /\ WarningKey \notin Users) =>
          \A m \in Metrics :
              NamesOf(result.aggregatedData.userComparisons[m]) = usernames
    /\ (pc = "published" /\ multiUserData # NoData
        /\ WarningKey \notin Range(usernameList)) =>
          \A m \in Metrics :
              NamesOf(multiUserData.aggregatedData.userComparisons[m]) = usernameList

\* The settle-order half of C2 alone: the aggregate of a run of
\* fetchMultipleUsersData lists the usernames in the caller's order.
C2_FetchedInRequestOrder ==
    (Aggregated /\ WarningKey \notin Users) =>
        \A m \in Metrics :
            NamesOf(result.aggregatedData.userComparisons[m]) = usernames

\* C3: phase barrier.  A repository fetch has been started only if the profile
\* fetch of every username of the batch has settled, and an events fetch has
\* been started only if the repository fetch of every eligible username (every
\* username whose profile fetch succeeded) has settled.
C3_PhaseBarrier ==
    /\ (\E u \in Users : fetches["repositories"][u] # "none") =>
          \A v \in Users : Settled("profile", v)
    /\ (\E u \in Users : fetches["events"][u] # "none") =>
          \A v \in Users :
              /\ Settled("profile", v)
              /\ Succeeded("profile", v) => Settled("repositories", v)

\* A batch of two in its events phase: one profile failed, the other
\* username's events fetch is in flight.
C3_Witness ==
    /\ Len(usernames) >= 2
    /\ \E u, v \in Users :
          /\ Failed("profile", u)
          /\ fetches["events"][v] = "pending"
          /\ Settled("repositories", v)

\* The record a username must hold given the outcomes of its own fetches.
ExpectedRecord(username) ==
    IF Failed("profile", username)
    THEN [error |-> fetches["profile"][username]]
    ELSE LET withUser  == [user |-> RemoteUser(username)]
             withRepos ==
                 IF Succeeded("repositories", username)
                 THEN SetField(withUser, "repositories", RemoteRepositories(username))
                 ELSE IF Failed("repositories", username)
                 THEN SetField(withUser, "repositoriesError",
                               fetches["repositories"][username])
                 ELSE withUser
         IN  IF Succeeded("events", username)
             THEN SetField(withRepos, "events", RemoteEvents(username))
             ELSE IF Failed("events", username)
             THEN SetField(withRepos, "eventsError", fetches["events"][username])
             ELSE withRepos

ReposPhaseStarted == pc \in {"repos", "events", "done", "published"}
EventsPhaseStarted == pc \in {"events", "done", "published"}

\* C4: a username whose profile fetch failed has the record {error: message}
\* and no repository or events request is ever sent for it; the record of
\* every username is the one its own fetch outcomes give, and its later
\* requests are sent exactly when its own profile fetch succeeded, so a
\* failing username changes nothing for the others.
C4_ProfileFailureIsolated ==
    \A u \in Users :
        /\ Failed("profile", u) =>
              /\ userData.val[u] = [error |-> fetches["profile"][u]]
              /\ fetches["repositories"][u] = "none" /\ issued["repositories"][u] = 0
              /\ fetches["events"][u] = "none" /\ issued["events"][u] = 0
              /\ Resolved => result.userData.val[u] = [error |-> fetches["profile"][u]]
        /\ Settled("profile", u) => userData.val[u] = ExpectedRecord(u)
        /\ ReposPhaseStarted =>
              (fetches["repositories"][u] # "none" <=> Succeeded("profile", u))
        /\ EventsPhaseStarted =>
              (fetches["events"][u] # "none" <=> Succeeded("profile", u))

\* A resolved batch of two: one profile failed, the other username was
\* fetched completely.
C4_Witness ==
    /\ pc = "done"
    /\ \E u, v \in Users :
          /\ Failed("profile", u)
          /\ Succeeded("profile", v)
          /\ Succeeded("repositories", v)
          /\ Succeeded("events", v)

\* C5: after a successful profile fetch a failed repository fetch leaves the
\* profile in the record, sets repositoriesError and no error field, and the
\* events request of that username is still sent; a failed events fetch sets
\* only eventsError and leaves the profile and the repositories in place.
C5_LaterFailuresNotFatal ==
    \A u \in Users :
        /\ Failed("repositories", u) =>
              LET rec == userData.val[u]
              IN  /\ Has(rec, "user") /\ rec.user = RemoteUser(u)
                  /\ Has(rec, "repositoriesError")
                  /\ rec.repositoriesError = fetches["repositories"][u]
                  /\ ~Has(rec, "error")
                  /\ ~Has(rec, "repositories")
                  /\ EventsPhaseStarted =>
                        fetches["events"][u] # "none" /\ issued["events"][u] = 1
        /\ Failed("events", u) =>
              LET rec == userData.val[u]
              IN  /\ Has(rec, "user") /\ rec.user = RemoteUser(u)
                  /\ Has(rec, "eventsError")
                  /\ rec.eventsError = fetches["events"][u]
                  /\ ~Has(rec, "error")
                  /\ ~Has(rec, "events")
                  /\ Succeeded("repositories", u) =>
                        /\ Has(rec, "repositories")
                        /\ rec.repositories = RemoteRepositories(u)
                        /\ DOMAIN rec = {"user", "repositories", "eventsError"}
                  /\ Failed("repositories", u) =>
                        DOMAIN rec = {"user", "repositoriesError", "eventsError"}

\* A resolved batch in which one username lost its repositories and kept its
\* events and another kept its repositories and lost its events.
C5_Witness ==
    /\ pc = "done"
    /\ \E u, v \in Users :
          /\ Failed("repositories", u) /\ Succeeded("events", u)
          /\ Succeeded("repositories", v) /\ Failed("events", v)

AllEndedInError == \A u \in Users : HasError(result.userData.val[u])

\* C7: the result is the total failure with rate-limit cause
\* {userData, rateLimitExceeded: true, rateLimitMessage: the warning text}
\* exactly when every username ended in the error state and the budget check
\* was insufficient; otherwise it is {userData, aggregatedData}.
C7_TotalFailureIffAllFailedAndInsufficient ==
    Resolved =>
        IF AllEndedInError /\ ~rateLimitStatus.sufficient
        THEN /\ DOMAIN result = {"userData", "rateLimitExceeded", "rateLimitMessage"}
             /\ result.rateLimitExceeded = TRUE
             /\ result.rateLimitMessage = WarningMessage(rateLimitStatus.resetTime)
        ELSE DOMAIN result = {"userData", "aggregatedData"}

AggregateFields ==
    {"totalUsers", "totalRepositories", "totalStars", "totalForks", "totalFollowers",
     "languageDistribution", "userComparisons", "commitData", "languageData",
     "hasRateLimitWarning", "rateLimitWarning"}

\* An aggregate with every field, numeric totals, the four comparison arrays
\* and the commit rows over the same usernames, and every row as long as the
\* date axis.
WellShaped(agg) ==
    /\ DOMAIN agg = AggregateFields
    /\ agg.totalUsers \in Nat /\ agg.totalRepositories \in Nat /\ agg.totalStars \in Nat
    /\ agg.totalForks \in Nat /\ agg.totalFollowers \in Nat
    /\ DOMAIN agg.userComparisons = Metrics
    /\ \A m \in Metrics :
          /\ Len(agg.userComparisons[m]) = agg.totalUsers
          /\ NamesOf(agg.userComparisons[m]) = NamesOf(agg.userComparisons["repositories"])
          /\ \A i \in DOMAIN agg.userComparisons[m] :
                agg.userComparisons[m][i].value \in Nat
    /\ Len(agg.commitData.labels) >= 1
    /\ Len(agg.commitData.datasets) = agg.totalUsers
    /\ \A i \in DOMAIN agg.commitData.datasets :
          /\ agg.commitData.datasets[i].label = agg.userComparisons["repositories"][i].username
          /\ Len(agg.commitData.datasets[i].data) = Len(agg.commitData.labels)
    /\ Len(agg.languageData.labels) = Len(agg.languageData.data)

C9_SufficientIffBudgetCoversBatch ==
    rateQuery.state = "settled" =>
        LET response  == rateQuery.response
            userCount == Len(usernames)
        IN  /\ rateLimitStatus.sufficient \in BOOLEAN
            /\ rateLimitStatus.sufficient = FALSE <=>
                  (response.fulfilled /\ response.remaining < userCount * 3)
            /\ ~response.fulfilled => rateLimitStatus = [sufficient |-> TRUE]

\* The boundary: the query reports exactly userCount * 3 remaining calls and
\* the check is sufficient.
C9_Witness ==
    /\ rateQuery.state = "settled"
    /\ rateQuery.response.fulfilled
    /\ rateQuery.response.remaining = Len(usernames) * 3
    /\ rateLimitStatus.sufficient

\* C10: whatever the budget check says, a profile request is sent for every
\* username of the batch, and the repository and events requests are sent for
\* every username whose profile fetch succeeded.
C10_BudgetNeverPreventsFetching ==
    /\ pc \notin {"idle", "rate"} =>
          \A u \in Users : fetches["profile"][u] # "none" /\ issued["profile"][u] = 1
    /\ ReposPhaseStarted =>
          \A u \in Users : Succeeded("profile", u) =>
              fetches["repositories"][u] # "none" /\ issued["repositories"][u] = 1
    /\ EventsPhaseStarted =>
          \A u \in Users : Succeeded("profile", u) =>
              fetches["events"][u] # "none" /\ issued["events"][u] = 1

\* An insufficient budget, and still a username fetched through all three
\* phases next to one whose profile failed.
C10_Witness ==
    /\ pc = "done"
    /\ rateLimitStatus.sufficient = FALSE
    /\ \E u, v \in Users :
          /\ Succeeded("profile", u) /\ Succeeded("repositories", u)
          /\ Succeeded("events", u)
          /\ Failed("profile", v)

\* The aggregate carries the warning text of the run's budget check.
Warned(agg) ==
    /\ agg.hasRateLimitWarning = TRUE
    /\ agg.rateLimitWarning = WarningMessage(rateLimitStatus.resetTime)

Unwarned(agg) ==
    /\ agg.hasRateLimitWarning = FALSE
    /\ agg.rateLimitWarning = Null

\* C11: when the budget check of a batch was insufficient, the aggregate of
\* the batch carries the warning (hasRateLimitWarning and the warning text),
\* however many of its fetches succeeded, and so does the aggregate published
\* after the merge with the cached usernames; when the check was sufficient
\* neither aggregate carries a warning.
C11_WarningIffInsufficient ==
    /\ Aggregated =>
          IF ~rateLimitStatus.sufficient
          THEN Warned(result.aggregatedData)
          ELSE Unwarned(result.aggregatedData)
    /\ (pc = "published" /\ usernames # <<>>) =>
          IF ~rateLimitStatus.sufficient
          THEN Warned(multiUserData.aggregatedData)
          ELSE Unwarned(multiUserData.aggregatedData)

\* C11 for searches in which no username, fetched or cached, is the reserved key.
C11_WithoutReservedKey ==
    WarningKey \notin Range(usernameList) => C11_WarningIffInsufficient

\* -------------------------------------------------- the session's cache
\* C12: a username that has a cache entry when a search is issued is not
\* fetched.  Every step requests from the network only usernames without a
\* cache entry (handleMultiSearch hands fetchMultipleUsersData exactly the
\* usernames of its list that are not cached, fetchGitHubData fetches only on
\* a cache miss), and a step starts a fetch run only if it requests such a
\* username: a search whose usernames are all cached starts no run, so not
\* even the rate-status query is sent.
C12_CachedNeverFetched ==
    [][/\ lastStep'.requested \cap DOMAIN developerCache' = {}
       /\ runs' # runs <=> lastStep'.requested # {}
       /\ Len(singles') + Len(multis') > Len(singles) + Len(multis) => runs' # runs
       /\ \A i \in DOMAIN multis' :
             LET call == multis'[i]
             IN  /\ call.usersToFetch # <<>>
                 /\ Range(call.usersToFetch) =
                        Range(call.usernameList) \ DOMAIN call.developerCache
                 /\ Range(ObjectKeys(call.cachedUsers)) =
                        Range(call.usernameList) \cap DOMAIN call.developerCache]_vars

\* A compare-mode search of two usernames, one served by the cache and only
\* the other handed to the fetch.
C12_Witness ==
    /\ multis # <<>>
    /\ LET call == multis[Len(multis)]
       IN  /\ Len(call.usernameList) = 2
           /\ Len(call.usersToFetch) = 1
           /\ Len(ObjectKeys(call.cachedUsers)) = 1
           /\ lastStep.requested = Range(call.usersToFetch)

\* C13: a username has an entry in developerCache only if a profile fetch of
\* that username has succeeded before, and the entry holds that profile; the
\* operation in which the profile fetch of a username failed makes no entry
\* for it (an entry it has afterwards is one it had before, unchanged).
C13_CachedOnlyAfterProfileSuccess ==
    [][/\ DOMAIN developerCache' \subseteq everOk'
       /\ \A u \in DOMAIN developerCache' : developerCache'[u].user = RemoteUser(u)
       /\ \A u \in lastStep'.profileFailed :
             u \in DOMAIN developerCache' =>
                 u \in DOMAIN developerCache /\ developerCache'[u] = developerCache[u]]_vars

\* A batch has just resolved with one profile fetched and one failed, and the
\* cache holds the first and not the second.
C13_Witness ==
    /\ lastStep.profileOk # {}
    /\ lastStep.profileFailed # {}
    /\ lastStep.profileOk \subseteq DOMAIN developerCache
    /\ lastStep.profileFailed \cap DOMAIN developerCache = {}

\* C13 inside one multi-user search (Spec), the reserved key included: what
\* the search adds to the cache it started from are usernames whose profile
\* fetch succeeded in it.
C13_BatchCachesOnlyFetchedProfiles ==
    /\ DOMAIN developerCache \subseteq
           DOMAIN closureCache \cup {u \in Users : Succeeded("profile", u)}
    /\ \A u \in DOMAIN developerCache : developerCache[u].user = RemoteUser(u)

\* C14: a failed repository fetch or events fetch does not block caching.
\* When an operation has just completed, every username whose profile fetch
\* succeeded in it has a cache entry.
C14_LaterFailuresDoNotBlockCaching ==
    \A u \in lastStep.profileOk : u \in DOMAIN developerCache

\* C14 for the batches of handleMultiSearch alone: the step in which a batch
\* resolves leaves an entry for every username whose profile it fetched, with
\* the repositories and the commit series it fetched, empty for a part that
\* failed.
C14_InBatches ==
    [][Len(multis') < Len(multis) =>
          \A u \in lastStep'.profileOk :
              /\ u \in DOMAIN developerCache'
              /\ developerCache'[u].user = RemoteUser(u)
              /\ developerCache'[u].repositories \in {<<>>, RemoteRepositories(u)}
              /\ developerCache'[u].commitHistory \in
                     {processCommitHistory(<<>>), processCommitHistory(RemoteEvents(u))}]_vars

\* C15: no eviction.  A username that has an entry in developerCache has an
\* entry after every step, whatever runs are in flight.
C15_NoEviction ==
    [][DOMAIN developerCache \subseteq DOMAIN developerCache']_vars

\* C15 for the steps in which no waiting handleMultiSearch holds a cache older
\* than developerCache: what a step evicts are entries made after the
\* resolving call read the cache.
C15_WithoutStaleCache ==
    [][(\A i \in DOMAIN multis :
            DOMAIN developerCache \subseteq DOMAIN multis[i].developerCache) =>
          DOMAIN developerCache \subseteq DOMAIN developerCache']_vars

\* The step keeps every cache entry it found, unchanged.
KeepsCache ==
    \A u \in DOMAIN developerCache :
        u \in DOMAIN developerCache' /\ developerCache'[u] = developerCache[u]

\* C16: the step in which a failed operation completes (a batch with a failed
\* username, the total failure with rate-limit cause included, or a run of
\* fetchGitHubData whose fetch rejected) leaves every cache entry that existed
\* unchanged.
C16_FailureKeepsCache ==
    [][lastStep'.failed => KeepsCache]_vars

\* C16 for the steps in which no waiting handleMultiSearch holds a cache older
\* than developerCache.
C16_WithoutStaleCache ==
    [][(/\ lastStep'.failed
        /\ \A i \in DOMAIN multis :
              DOMAIN developerCache \subseteq DOMAIN multis[i].developerCache) =>
          KeepsCache]_vars

\* ------------------------------------------------ the merge, as a function
\* The usernames that buildCombinedUserData is given twice: as a cached entry
\* and as a fetched record.
GivenTwice ==
    {u \in Range(ObjectKeys(cachedUsers)) \cap Range(ObjectKeys(userData)) :
        Has(userData.val[u], "user") \/ Has(userData.val[u], "error")}

C17_CachedWins ==
    pc = "merged" =>
        \A u \in Range(ObjectKeys(cachedUsers)) :
            multiUserData.userData.val[u] =
                [user |-> cachedUsers.val[u].user,
                 repositories |-> cachedUsers.val[u].repositories,
                 events |-> <<>>]

\* --------------------------------------------- the combined commit series
\* The sum of payload.size over the push events of a calendar day.
PushSum(events, day) ==
    LET onDay == SelectSeq(events, LAMBDA e : e.type = "PushEvent"
                                              /\ ToISODate(e.created_at) = day)
    IN  SumSeq([i \in DOMAIN onDay |-> onDay[i].payload.size])

\* The rows of a commit series that carry a username.
RowsOf(commitData, username) ==
    {i \in DOMAIN commitData.datasets : commitData.datasets[i].label = username}

ZeroRow(commitData, i) ==
    \A j \in DOMAIN commitData.datasets[i].data : commitData.datasets[i].data[j] = 0

\* handleMultiSearch has published the merge of a cached subset with what it
\* fetched.
MergePublished ==
    /\ pc = "published"
    /\ Len(ObjectKeys(cachedUsers)) > 0
    /\ multiUserData # NoData

\* The usernames of the batch whose fetched record went into the merge with
\* an events list.
FreshWithEvents ==
    {u \in Range(usernames) :
        /\ HasKey(userData, u)
        /\ Has(userData.val[u], "events")
        /\ HasKey(multiUserData.userData, u)}

MergedRows ==
    LET commitData == multiUserData.aggregatedData.commitData
    IN  /\ \A u \in Range(ObjectKeys(cachedUsers)) :
              /\ multiUserData.userData.val[u].events = <<>>
              /\ RowsOf(commitData, u) # {}
              /\ \A i \in RowsOf(commitData, u) : ZeroRow(commitData, i)
        /\ \A u \in FreshWithEvents :
              /\ RowsOf(commitData, u) # {}
              /\ \A i \in RowsOf(commitData, u) :
                    \A day \in PushDates(userData.val[u].events) :
                        \E j \in DOMAIN commitData.labels :
                            /\ commitData.labels[j] = day
                            /\ commitData.datasets[i].data[j] =
                                   PushSum(userData.val[u].events, day)

\* C18: in a merge of cached and fetched usernames every cached username has a
\* record with an empty events list and a row of zeros in the combined commit
\* series, and the row of every fetched username holds, on each of its push
\* dates, the sum of its push sizes of that date.
C18_MergedCommitRows == MergePublished => MergedRows

\* C18 holds for the lists without the reserved key of userData.
C18_WithoutReservedKey ==
    (MergePublished /\ WarningKey \notin Range(usernameList)) => MergedRows

\* The scenario of C18: a cached username with a row of zeros beside a fetched
\* one whose three pushes of one day sum to 7.
C18_Scenario ==
    /\ MergePublished
    /\ WarningKey \notin Range(usernameList)
    /\ \E u \in FreshWithEvents :
          \E day \in PushDates(userData.val[u].events) :
              PushSum(userData.val[u].events, day) = 7

\* ------------------------------------------- the commit series, as a function
\* The aggregate of a merge and what it was computed from.
Merged == pc = "merged"
MergedData == multiUserData.userData
MergedNames == AggregatedUsernames(MergedData)
MergedCommits == multiUserData.aggregatedData.commitData

\* The record of a username has an events list the aggregation reads.
Usable(username) ==
    /\ ~Has(MergedData.val[username], "error")
    /\ Has(MergedData.val[username], "events")

\* The calendar days of the push events of a list.
PushDays(events) ==
    {e.created_at \div 24 : e \in {x \in Range(events) : x.type = "PushEvent"}}

DaysPushed ==
    UNION {PushDays(MergedData.val[u].events) : u \in {v \in Range(MergedNames) : Usable(v)}}

C21_TodayPlaceholder ==
    (Merged /\ DaysPushed = {}) =>
        /\ MergedCommits.labels = <<Today>>
        /\ \A i \in DOMAIN MergedCommits.datasets :
              MergedCommits.datasets[i].data = <<0>>

\* An aggregate over two usernames without a push: one failed, the other has
\* an events list that holds an event which is no push.
C21_Witness ==
    /\ Merged
    /\ DaysPushed = {}
    /\ Len(MergedCommits.datasets) = 2
    /\ \E u, v \in Range(MergedNames) :
          /\ Has(MergedData.val[u], "error")
          /\ Usable(v)
          /\ MergedData.val[v].events # <<>>

\* ------------------------------------------------ the totals, as a function
MergedStats == multiUserData.aggregatedData

\* The record of a username has an error or no profile.
NoProfileOf(username) ==
    \/ Has(MergedData.val[username], "error")
    \/ ~Has(MergedData.val[username], "user")

\* obj with the keys of `keep` only, in their order.
Restrict(obj, keep) ==
    [keys |-> SelectSeq(obj.keys, LAMBDA k : k \in keep),
     val  |-> [k \in (DOMAIN obj.val) \cap keep |-> obj.val[k]]]

TotalFields ==
    {"totalRepositories", "totalStars", "totalForks", "totalFollowers",
     "languageDistribution"}

\* The scenario of C22: a succeeds with one Go repository of 10 stars, the
\* profile fetch of b fails.
ScenarioData ==
    Put(Put(EmptyObject, "a",
            [user |-> RemoteUser("a"),
             repositories |-> <<[name |-> "a1", language |-> "Go",
                                 stargazers_count |-> 10, forks_count |-> 2]>>,
             events |-> <<>>]),
        "b", [error |-> NotFoundMessage])

\* C22: a username whose record has an error or no profile adds nothing to
\* the four totals and to languageDistribution (they are those of the
\* aggregate without it) and has value 0 in every comparison; in the scenario
\* totalStars is 10, the stars comparison is a = 10, b = 0 and
\* languageDistribution is {Go: 1}.
C22_FailedAddsNothing ==
    /\ Merged =>
          LET kept == Restrict(MergedData,
                               {u \in DOMAIN MergedData.val :
                                   u = WarningKey \/ ~NoProfileOf(u)})
              without == calculateAggregatedStats(kept)
          IN  /\ \A f \in TotalFields : MergedStats[f] = without[f]
              /\ \A m \in Metrics :
                    \A i \in DOMAIN MergedStats.userComparisons[m] :
                        LET c == MergedStats.userComparisons[m][i]
                        IN  NoProfileOf(c.username) => c.value = 0
    /\ LET scenario == calculateAggregatedStats(ScenarioData)
       IN  /\ scenario.totalStars = 10
           /\ scenario.userComparisons.stars =
                  <<[username |-> "a", value |-> 10], [username |-> "b", value |-> 0]>>
           /\ scenario.languageDistribution = Put(EmptyObject, "Go", 1)

\* An aggregate over a, fetched with its repositories, and b, whose profile
\* fetch failed: the totals are those of a alone.
C22_Witness ==
    /\ Merged
    /\ MergedNames = <<"a", "b">>
    /\ Has(MergedData.val["b"], "error")
    /\ Has(MergedData.val["a"], "repositories")
    /\ MergedStats.totalStars = 11
    /\ MergedStats.totalFollowers = 5
    /\ MergedStats.userComparisons.stars =
           <<[username |-> "a", value |-> 11], [username |-> "b", value |-> 0]>>
    /\ MergedStats.languageDistribution = Put(EmptyObject, "Go", 1)

\* The record of a username has a profile and no repositories field.
ProfileOnly(username) ==
    /\ ~NoProfileOf(username)
    /\ ~Has(MergedData.val[username], "repositories")

\* The entry of a username in a comparison array has the value.
Compared(metric, username, value) ==
    \E i \in DOMAIN MergedStats.userComparisons[metric] :
        MergedStats.userComparisons[metric][i] = [username |-> username, value |-> value]

\* The sum of f(username) over the usernames with a profile.
Over(f(_)) ==
    SumSeq([i \in DOMAIN MergedNames |->
               IF NoProfileOf(MergedNames[i]) THEN 0 ELSE f(MergedNames[i])])

ProfiledRepositories ==
    UNION {{<<u, i>> : i \in DOMAIN MergedData.val[u].repositories} :
              u \in {v \in Range(MergedNames) :
                        /\ ~NoProfileOf(v)
                        /\ Has(MergedData.val[v], "repositories")}}

LanguageOf(r) == MergedData.val[r[1]].repositories[r[2]].language

SomePush ==
    \E u \in Range(AggregatedUsernames(userData)) :
        /\ ~SkippedEvents(userData, u)
        /\ PushDays(userData.val[u].events) # {}

\* calculateAggregatedStats leaves the userData it is given as it was.
ArgumentKept == \A i \in DOMAIN calls : calls[i].given = userData

EmptySeries == [labels |-> <<>>, data |-> <<>>]

\* The local calendar days the range starts and ends on.
StartDay == LocalDay(dateRange.start, timeZone)
EndDay == LocalDay(dateRange.end, timeZone)

CommitsFiltered == filteredCommitHistory # NoData
LanguagesFiltered == filteredLanguageData # NoData

\* C26: filterCommitHistoryByDateRange called with a start day later than the
\* end day returns empty labels and empty data for every series: the reversed
\* range is empty, not swapped.
C26_ReversedRangeIsEmpty ==
    (CommitsFiltered /\ StartDay > EndDay) => filteredCommitHistory = EmptySeries

\* The filter was applied to the full history with a range that starts at
\* least two days after its end, so that the swapped range would hold labels
\* in every time zone.
C26_Witness ==
    /\ CommitsFiltered
    /\ StartDay > EndDay + 1
    /\ displayed.commitHistory = FullHistory

\* The series is one the filter reads: it has labels and data.
SeriesGiven ==
    /\ displayed.commitHistory # NoData
    /\ Has(displayed.commitHistory, "labels")
    /\ Has(displayed.commitHistory, "data")

\* The (label, value) pairs of the series whose calendar date is a day of
\* the range, both ends included, in their order.
PairsInRange ==
    LET series == displayed.commitHistory
        kept   == SelectSeq([i \in DOMAIN series.labels |-> i],
                            LAMBDA i : /\ series.labels[i] >= StartDay
                                       /\ series.labels[i] <= EndDay)
    IN  [labels |-> [k \in DOMAIN kept |-> series.labels[kept[k]]],
         data   |-> [k \in DOMAIN kept |-> series.data[kept[k]]]]

FilteredAsClaimed ==
    /\ filteredCommitHistory = (IF SeriesGiven THEN PairsInRange ELSE EmptySeries)
    /\ Len(filteredCommitHistory.labels) = Len(filteredCommitHistory.data)

\* C27: filterCommitHistoryByDateRange returns exactly the (label, value)
\* pairs of the series whose calendar date lies between the start day and the
\* end day, both included, in their order and with labels and data of equal
\* length; it returns empty arrays when nothing is in range or the series is
\* missing.
C27_PairsOfTheRange == CommitsFiltered => FilteredAsClaimed

\* C27 holds in the time zones at and east of UTC.
C27_EastOfGreenwich == (CommitsFiltered /\ timeZone >= 0) => FilteredAsClaimed

\* West of UTC the filter returns the pairs of the days from the day after the
\* start day to the day after the end day.
C27_WestOfGreenwich ==
    (CommitsFiltered /\ timeZone < 0 /\ SeriesGiven) =>
        LET series == displayed.commitHistory
            kept   == SelectSeq([i \in DOMAIN series.labels |-> i],
                                LAMBDA i : /\ series.labels[i] >= StartDay + 1
                                           /\ series.labels[i] <= EndDay + 1)
        IN  filteredCommitHistory =
                [labels |-> [k \in DOMAIN kept |-> series.labels[kept[k]]],
                 data   |-> [k \in DOMAIN kept |-> series.data[kept[k]]]]

\* East of UTC a range of two days keeps the two pairs of the full history.
C27_Scenario ==
    /\ CommitsFiltered
    /\ timeZone > 0
    /\ displayed.commitHistory = FullHistory
    /\ EndDay = StartDay + 1
    /\ Len(filteredCommitHistory.labels) = 2

\* The repositories updated between the first moment of the start day and
\* the last moment of the end day, as indices of the list.
UpdatedInRange ==
    {i \in DOMAIN displayed.repositories :
        /\ LocalDay(displayed.repositories[i].updated_at, timeZone) >= StartDay
        /\ LocalDay(displayed.repositories[i].updated_at, timeZone) <= EndDay}

\* C28: filterLanguageDataByDateRange keeps exactly the repositories updated
\* between the start of the start day and the end of the end day and returns,
\* for each language, the number of kept repositories that declare it, labels
\* and data aligned; a repository out of the range or without a language adds
\* nothing.
C28_LanguagesOfTheRange ==
    LanguagesFiltered =>
        LET labels == filteredLanguageData.labels
            data   == filteredLanguageData.data
            Declared(L) == {i \in UpdatedInRange : displayed.repositories[i].language = L}
        IN  /\ DOMAIN data = DOMAIN labels
            /\ IsDistinct(labels)
            /\ Range(labels) =
                   {displayed.repositories[i].language : i \in UpdatedInRange} \ {Null}
            /\ \A k \in DOMAIN labels : data[k] = Cardinality(Declared(labels[k]))

\* The filter was applied to the dated repositories with a range that ends
\* before the last moment of its end day: repositories updated later on that
\* day are kept, others are out of the range, one kept repository has no
\* language and one language is declared by several.
C28_Witness ==
    /\ LanguagesFiltered
    /\ displayed.repositories = DatedRepositories
    /\ \E i \in UpdatedInRange : displayed.repositories[i].updated_at > dateRange.end
    /\ \E i \in UpdatedInRange : displayed.repositories[i].language = Null
    /\ \E i \in DOMAIN displayed.repositories : i \notin UpdatedInRange
    /\ \E k \in DOMAIN filteredLanguageData.data : filteredLanguageData.data[k] > 1

\* ------------------------------------------------------------ the palette
\* C29: generateColors(k) returns exactly k colors, the same for the same k;
\* for k up to 10 they are the first k entries of the base palette, for k
\* above 10 the first 10 are the base palette in its order.
C29_PaletteOfCount ==
    \A i \in DOMAIN palettes :
        LET k == palettes[i].count
            colors == palettes[i].colors
        IN  /\ Len(colors) = k
            /\ k <= Len(baseColors) => colors = SubSeq(baseColors, 1, k)
            /\ k > Len(baseColors) => SubSeq(colors, 1, Len(baseColors)) = baseColors
            /\ \A j \in DOMAIN palettes :
                  palettes[j].count = k => palettes[j].colors = colors

\* Two renders with the same count above the size of the base palette, whose
\* last color is a generated one.
C29_Witness ==
    /\ Len(palettes) = 2
    /\ palettes[1].count = palettes[2].count
    /\ palettes[1].count > Len(baseColors)
    /\ palettes[1].colors[palettes[1].count] \notin Range(baseColors)

C30_SecondBatchCached ==
    \A fetched \in bothDone :
        fetched \cap lastStep.profileOk \subseteq DOMAIN developerCache

\* Both batches of a pair fetched a profile and the second has just resolved.
C30_Scenario ==
    \E fetched \in bothDone :
        /\ lastStep.profileOk # {}
        /\ fetched \ lastStep.profileOk # {}

\* ------------------------------------------------------------- termination
\* No request of the run is waiting for its response.
NothingPending ==
    /\ rateQuery.state = "settled"
    /\ \A k \in Kinds : AllSettled(fetches[k])

\* C31: when the rate-status query and every fetch that is sent settle, a run
\* of fetchMultipleUsersData that has started resolves, and it has resolved
\* only when every fetch it sent has settled.
C31_ResolvesAfterEveryFetch ==
    /\ (promise = "pending") ~> (promise = "fulfilled")
    /\ [](promise = "fulfilled" => NothingPending)

\* The run has resolved after it sent the three fetches of some username and
\* a fetch of it was rejected.
C31_Witness ==
    /\ promise = "fulfilled"
    /\ \E u \in Users : \A k \in Kinds : issued[k][u] = 1
    /\ \E u \in Users : \E k \in Kinds : fetches[k][u] \notin {"ok", "none", "pending"}

\* ------------------------------------------------------- calls of one run
\* The requests the run has sent for the usernames in `names`.
RECURSIVE CallsFor(_)
CallsFor(names) ==
    IF names = <<>> THEN 0
    ELSE issued["profile"][Head(names)] + issued["repositories"][Head(names)]
         + issued["events"][Head(names)] + CallsFor(Tail(names))

\* C32: one run of fetchMultipleUsersData queries the rate status once, before
\* any fetch; it sends one profile fetch per username, and one repository
\* fetch and one events fetch per username whose profile fetch succeeded, none
\* of them twice: at most 3N + 1 calls for N usernames.
C32_CallsOfOneRun ==
    /\ rateCalls <= 1
    /\ rateQuery.state # "settled" => CallsFor(usernames) = 0
    /\ \A u \in Users :
          /\ \A k \in Kinds : issued[k][u] <= 1
          /\ \A k \in {"repositories", "events"} :
                issued[k][u] = 1 => fetches["profile"][u] = "ok"
    /\ promise = "fulfilled" =>
          /\ rateCalls = 1
          /\ \A u \in Users :
                /\ issued["profile"][u] = 1
                /\ \A k \in {"repositories", "events"} :
                      issued[k][u] = IF fetches["profile"][u] = "ok" THEN 1 ELSE 0
          /\ rateCalls + CallsFor(usernames) <= CallsPerUser * Len(usernames) + 1

\* A resolved run of two usernames, one profile fetched and one not: five
\* calls.
C32_Witness ==
    /\ promise = "fulfilled"
    /\ Len(usernames) = 2
    /\ \E u \in Users : fetches["profile"][u] = "ok"
    /\ \E u \in Users : fetches["profile"][u] \notin {"ok", "pending", "none"}
    /\ rateCalls + CallsFor(usernames) = 5

\* ------------------------------------------------------------ record shape
\* A record with an error has nothing else, and no part of a record is both
\* fetched and failed.
RecordShaped(rec) ==
    /\ Has(rec, "error") => DOMAIN rec = {"error"}
    /\ ~(Has(rec, "repositories") /\ Has(rec, "repositoriesError"))
    /\ ~(Has(rec, "events") /\ Has(rec, "eventsError"))

\* C33: at every point of a batch and in its result, a record with an error
\* field has no profile, repositories, events, repositoriesError or
\* eventsError, no record has both repositories and repositoriesError or both
\* events and eventsError, and after the batch every requested username has a
\* record with an error or with a profile.
C33_RecordShape ==
    /\ \A k \in DOMAIN userData.val : RecordShaped(userData.val[k])
    /\ promise = "fulfilled" =>
          /\ \A k \in DOMAIN result.userData.val : RecordShaped(result.userData.val[k])
          /\ \A u \in Users :
                /\ HasKey(result.userData, u)
                /\ Has(result.userData.val[u], "error") \/ Has(result.userData.val[u], "user")

\* A result with a failed username beside one whose profile and events were
\* fetched and whose repositories were not.
C33_Witness ==
    /\ promise = "fulfilled"
    /\ \E u \in Users : Has(result.userData.val[u], "error")
    /\ \E u \in Users :
          /\ Has(result.userData.val[u], "user")
          /\ Has(result.userData.val[u], "repositoriesError")
          /\ Has(result.userData.val[u], "events")

\* ------------------------------------------------- totals and comparisons
\* The sum of the values of a comparison array.
ComparedSum(metric) ==
    SumSeq([i \in DOMAIN MergedStats.userComparisons[metric] |->
               MergedStats.userComparisons[metric][i].value])

\* C34: in every aggregate each total is the sum of the values of its
\* comparison array, and totalUsers is the length of each comparison array.
C34_TotalsAreSumsOfComparisons ==
    Merged =>
        /\ MergedStats.totalRepositories = ComparedSum("repositories")
        /\ MergedStats.totalFollowers = ComparedSum("followers")
        /\ MergedStats.totalStars = ComparedSum("stars")
        /\ MergedStats.totalForks = ComparedSum("forks")
        /\ \A metric \in DOMAIN MergedStats.userComparisons :
              Len(MergedStats.userComparisons[metric]) = MergedStats.totalUsers

\* An aggregate of a username with stars and forks and a username without a
\* profile.
C34_Witness ==
    /\ Merged
    /\ MergedStats.totalUsers = 2
    /\ MergedStats.totalStars > 0
    /\ MergedStats.totalForks > 0
    /\ MergedStats.totalStars # MergedStats.totalForks
    /\ \E u \in Range(MergedNames) : NoProfileOf(u)

\* ------------------------------------------------------ the individual view
\* The individual view with no fetch run in flight and a profile on display.
ShownAtRest ==
    /\ ~isAggregated
    /\ singles = <<>>
    /\ multis = <<>>
    /\ selected # ""
    /\ displayed.userData # NoData

\* C35: in the individual view, once every fetch in flight has settled, the
\* profile, repositories and commit history on display are those of the
\* selected username.
C35_DisplayedIsSelected ==
    ShownAtRest =>
        /\ displayed.userData = RemoteUser(selected)
        /\ displayed.repositories = RemoteRepositories(selected)
        /\ displayed.commitHistory = processCommitHistory(RemoteEvents(selected))

\* What does hold: when the selected username has a cache entry, the display
\* is that entry, whatever response came last (the effect of lines 95-170 runs
\* again after every write of the cache and displays the selected entry).
C35_CachedIsDisplayed ==
    (ShownAtRest /\ selected \in DOMAIN developerCache) =>
        displayed = ProfileOf(developerCache[selected])

\* The fetch of the selected username has failed and the profile of another
\* username is on display beside the error.
C35_Scenario ==
    /\ ShownAtRest
    /\ error # Null
    /\ selected \notin DOMAIN developerCache
    /\ displayed.userData # RemoteUser(selected)

\* --------------------------------------------------- overlapping searches
\* The usernames multiUserData holds records of.
PublishedNames == Range(AggregatedUsernames(multiUserData.userData))

\* Compare mode with a result on display and no call of handleMultiSearch
\* waiting.  The list is not empty, so the call issued last was given it (the
\* switch, an add, a chip delete and the Compare button all pass the list
\* they leave).
ComparedAtRest ==
    /\ isAggregated
    /\ multis = <<>>
    /\ usernameList # <<>>
    /\ multiUserData # NoData

\* C36: after every call of handleMultiSearch has resolved, multiUserData is
\* the result for the list of the call issued last, in whatever order the
\* calls resolved.
C36_LastIssuedWins ==
    ComparedAtRest => PublishedNames = Range(usernameList)

\* What does hold: a call that resumes publishes the result for its own list,
\* so multiUserData is the result of the call that resolved last.
C36_LastResolvedWins ==
    [][\A i \in DOMAIN multis :
          (multis' = RemoveAt(multis, i) /\ multiUserData' # NoData)
              => Range(AggregatedUsernames(multiUserData'.userData))
                     = Range(multis[i].usernameList)]_vars

\* The chip of a username was deleted while the batch of the longer list was
\* waiting, and that batch was the last to resolve.
C36_Scenario ==
    /\ ComparedAtRest
    /\ lastStep.profileOk # {}
    /\ Len(usernameList) = 1
    /\ Cardinality(PublishedNames) = 2

\* --------------------------------------------------------- the loading flag
\* C37: loading is true whenever a call of handleMultiSearch is waiting for
\* its batch, also when calls overlap, and it is false once no fetch run is
\* in flight.
C37_LoadingWhileInFlight ==
    /\ multis # <<>> => loading
    /\ (multis = <<>> /\ singles = <<>>) => ~loading

\* What does hold: the flag is false once every fetch run has ended.
C37_IdleAtRest ==
    (multis = <<>> /\ singles = <<>>) => ~loading

\* Two calls were waiting, one has resolved and has cleared the flag under
\* the other.
C37_Scenario ==
    /\ Len(multis) = 1
    /\ lastStep.profileOk \cup lastStep.profileFailed # {}
    /\ ~loading

\* ----------------------------------------------------------------- C38
\* The strings of nothing but white space, up to the length of the texts typed.
BlankNames == {StringOf(chars) : chars \in UNION {[1..n -> {" ", "\t"}] : n \in 0..3}}

\* C38: after any sequence of submits, switches, removals and compare clicks
\* the list of the form holds no name twice and no empty or white-space-only
\* name, and a list that an add or a removal passed to onMultiSearch is
\* non-empty and is the list the form holds after that action.
C38_ListKeptClean ==
    /\ IsDistinct(usernameList)
    /\ \A i \in DOMAIN usernameList : usernameList[i] \notin BlankNames
    /\ (passed.called /\ passed.by \in {"add", "remove"}) =>
           /\ passed.list # <<>>
           /\ passed.list = usernameList

\* A removal left a name with a space inside, and passed that list on.
C38_Witness ==
    /\ passed.called
    /\ passed.by = "remove"
    /\ usernameList = <<"a b">>

\* ----------------------------------------------------------------- C39
\* C39: when a published aggregate is computed over one username, and that
\* username was fetched by the call with an events list that has a push event,
\* then the labels and the row of commitData are the labels and data that
\* processCommitHistory gives for the same events, and the commitHistory the
\* call stored in the cache for the username is that same series.
C39_OneSeries ==
    (pc = "published" /\ Has(multiUserData, "aggregatedData") /\ Len(MergedNames) = 1) =>
        LET u      == MergedNames[1]
            series == [labels |-> MergedCommits.labels,
                       data   |-> MergedCommits.datasets[1].data]
        IN  (u \in Users /\ Usable(u) /\ PushDays(MergedData.val[u].events) # {}) =>
                /\ processCommitHistory(MergedData.val[u].events) = series
                /\ (u \in DOMAIN developerCache =>
                        developerCache[u].commitHistory = series)

\* The search for "a", whose pushes are two on one day after one on the day
\* before, with an event of another type on a third day: the cache and the
\* aggregate hold the two days in ascending order with sums 1 and 7.
C39_Witness ==
    /\ pc = "published"
    /\ Has(multiUserData, "aggregatedData")
    /\ MergedNames = <<"a">>
    /\ "a" \in Users
    /\ "a" \in DOMAIN developerCache
    /\ developerCache["a"].commitHistory = [labels |-> <<1, 2>>, data |-> <<1, 7>>]
    /\ MergedCommits.labels = <<1, 2>>
    /\ MergedCommits.datasets[1].data = <<1, 7>>

====
